---- MODULE Spec2Model ----
(***************************************************************************)
(* Model of lxe/bb: the ProxyManager's task-definition cache with its      *)
(* region mutex and global lock (proxy-manager, src/unnamed/part_000) and  *)
(* the PriorityQueue with line-cutting (stockbot, src/unnamed/part_002).   *)
(*                                                                         *)
(* JavaScript runs one job at a time: a macrotask (an I/O completion, a    *)
(* timer) runs to its first await, then the microtask queue is drained     *)
(* before the next macrotask.  Promise reactions run in the order in which *)
(* they were registered.  The model keeps both: `reactions` holds the      *)
(* continuations registered on each pending promise, `microtasks` the      *)
(* continuations that are ready to run, and no macrotask action is enabled *)
(* while `microtasks` is not empty.                                        *)
(***************************************************************************)
EXTENDS Integers, Sequences, FiniteSets, TLC

\* ------------------------------------------------------------------ bounds
MaxCount == 3        \* largest `count` passed to createProxies
NumRegions == 2      \* how many of this.regions are used
MaxRotation == 12    \* length of the longer base rotation
MaxTicks == 2        \* the clock advances at most MaxTicks * TickUnit in all
NumWorkers == 2      \* PageWorkers calling getNextUrl
MaxBatch == 2        \* largest `count` of a createProxies call followed to its return
MaxFleet == 3        \* largest number of units in proxies.json
MaxProxies == 2      \* largest number of proxy units a StockBot finds
MaxTargets == 5      \* largest number of targets of a StockBot run
MaxStops == 2        \* how many interrupt signals a StockBot run receives
MaxBoxes == 2        \* longest box_list of an API response
MaxCalls == 3        \* how many createProxies / createProxy calls are followed
MaxGroups == 3       \* largest number of products of a StockBot run
MaxPerGroup == 4     \* largest `count` of a product
MaxSubmit == 6       \* largest `count` of a createProxies call followed batch by batch
MaxRecords == 2      \* largest number of records of a proxies.json that is read in full
MaxUrls == 2         \* length of the rotation that initialize() is called with again
MaxStamp == 2        \* the clock readings Date.now() of a createProxies call are 1 .. MaxStamp

\* --------------------------------------------------------- program constants
maxRetries == 4
baseDelay == 1500
maxDelay == 15000
maxLineCuts == 5
socksPort == 1080
priorityCheckInterval == 30000
maxWaitTime == 300000
pollDelay == 10000
maxConcurrentOperations == 5
batchDelay == 1000

VARIABLES
  \* ---- ProxyManager
  targetRegions,             \* createProxies: region of each requested unit
  pc,                        \* position of each unit's createProxyService call
  awaiting,                  \* the promise a suspended unit awaits (its owner's id)
  errKind, errBy,            \* the error a unit's submission was rejected with
  taskDefinitionCache,       \* region -> unit whose creation registered the ARN, 0 = no entry
  taskDefinitionMutex,       \* region -> owner of the stored creation promise, 0 = no entry
  globalTaskDefinitionLock,  \* owner of the stored creation promise, 0 = null
  promise,                   \* state of the creationPromise made by each unit
  cstep,                     \* position inside createTaskDefinitionWithMutex
  attempt,                   \* retryWithBackoff's loop variable
  delays,                    \* the delays retryWithBackoff has waited, in order
  thrown,                    \* the error retryWithBackoff threw
  lastError,                 \* retryWithBackoff's lastError: the error last caught
  reactions,                 \* promise -> continuations registered on it, in order
  microtasks,                \* continuations ready to run, in order
  creations,                 \* region -> number of createTaskDefinitionWithMutex calls
  currentRegionIndex,        \* this.currentRegionIndex (0-based)
  regionCalls,               \* the createProxies / createProxy calls made: their regions
                             \* argument and the regions they assigned, in order
  waited,                    \* unit -> Date.now() - startTime of its waitForTaskRunning
  loop,                      \* the Phase 1 loop of createProxies: its variable i, whether
                             \* it awaits the batch or the delay, and the ms it has delayed
  \* ---- the infrastructure of a region
  clStep,                    \* unit -> position of its ensureCluster call
  sgStep,                    \* unit -> position of its ensureSecurityGroup call
  securityGroupCache,        \* region -> whether the cache has the region's group id
  cloudClusters,             \* region -> whether its cluster exists and is ACTIVE
  cloudGroups,               \* region -> whether its security group exists
  serviceNames,              \* unit -> the serviceName string createProxyService gave it
  \* ---- the fleet
  activeProxies,             \* this.activeProxies: the in-memory fleet, in order
  stateFile,                 \* proxies.json: whether it exists and its activeProxies
  writes,                    \* the fs.writeFile calls in flight, each with its data
  services,                  \* the cloud: serviceName -> what DescribeServices reports
  result,                    \* what createProxies returned
  initState,                 \* position of init(): "new", "validating", "saving", "done"
  validation,                \* serviceName -> what its validation promise resolved to
  persisted,                 \* the records loadState read
  tdState,                   \* serviceName -> position of the unit's teardown() call
  taState,                   \* position of teardownAll()
  \* ---- PriorityQueue
  urls,                      \* the base rotation
  currentIndex,              \* the base cursor (0-based)
  priorityMap,               \* Map url -> {priority, addedAt}, in insertion order
  lastPriorityCheck,         \* Map url -> timestamp, 0 = no entry
  now,                       \* Date.now()
  hot,                       \* the targets whose data can show a promotion condition
  \* ---- history of the getNextUrl calls
  lastKind,                  \* "none", "base" or "priority": kind of the last pull
  lastUrl,                   \* what the last pull returned
  baseWindow,                \* urls returned by the last urls.length base pulls
  lastPullAt,                \* url -> time of its last priority pull, 0 = none
  \* ---- history of the setPriority calls
  lastSet,                   \* the setPriority call of the last step: its arguments
                             \* and the tier the target had before, 0 = no record
  \* ---- history of the notifications to the web clients
  loading,                   \* the targets with a loading message sent and neither an
                             \* update nor a loading_complete message sent since
  \* ---- StockBot and its PageWorkers
  botProxies,                \* StockBot.proxies: the serviceNames of the proxy units
  workers,                   \* StockBot.workers: [id, proxy] of each PageWorker
  initFailed,                \* a worker.init() threw: the run is over
  isRunning,                 \* worker -> PageWorker.isRunning
  wpc,                       \* worker -> position of its start() loop
  wurl,                      \* worker -> the target it is processing
  closes,                    \* worker -> number of page.close() calls on its page
  lastFailed,                \* the worker whose processing last ended without data, 0 = none
  \* ---- StockBot's products and observations
  products,                  \* StockBot.products: the urls of each product, in order
  extracted,                 \* the API response a worker hands to processStockData
  stockData,                 \* StockBot.stockData: url -> the stored entry
  clients,                   \* WebServer.clients.size
  lastCall                   \* what the last processStockData call did

tdvars == <<targetRegions, pc, awaiting, errKind, errBy, taskDefinitionCache,
            taskDefinitionMutex, globalTaskDefinitionLock, promise, cstep,
            attempt, delays, thrown, lastError, reactions, microtasks, creations>>

opvars == <<initState, validation, persisted, tdState, taState>>

flvars == <<activeProxies, stateFile, writes, services, result, opvars>>

pqvars == <<urls, currentIndex, priorityMap, lastPriorityCheck, now, hot, lastKind,
            lastUrl, baseWindow, lastPullAt>>

wkvars == <<botProxies, workers, initFailed, isRunning, wpc, wurl, closes, lastFailed>>

sbvars == <<products, extracted, stockData, clients, lastCall>>

rgvars == <<currentRegionIndex, regionCalls, waited, loop>>

hsvars == <<lastSet, loading>>

ifvars == <<clStep, sgStep, securityGroupCache, cloudClusters, cloudGroups, serviceNames>>

vars == <<tdvars, rgvars, flvars, pqvars, wkvars, sbvars, hsvars, ifvars>>

Regions == 1 .. NumRegions
Units == DOMAIN targetRegions

\* an element read beyond an array, or at index NaN
Undefined == 0

\* this.regions, lines 39-63: the default region list
regions == [i \in 1 .. NumRegions |-> i]

\* createProxies: targetRegions[i] = availableRegions[i % availableRegions.length]
\* (i % 0 is NaN and availableRegions[NaN] is undefined)
RoundRobin(count, availableRegions) ==
  [i \in 1 .. count |->
     IF Len(availableRegions) = 0 THEN Undefined
     ELSE availableRegions[((i - 1) % Len(availableRegions)) + 1]]

\* a regions / region argument: null, or the value given
Null == [given |-> FALSE, value |-> <<>>]
Given(value) == [given |-> TRUE, value |-> value]

\* `regions || this.regions`: an array is truthy, the empty one included
OrDefault(argument) == IF argument.given THEN argument.value ELSE regions

\* createProxies(count, regions), lines 693-702: the regions of the count
\* units; the provisioning that follows is followed from Init and
\* InitProvision
createProxies(count, argument) ==
  /\ Len(regionCalls) < MaxCalls
  /\ regionCalls' = Append(regionCalls,
                           [op |-> "createProxies", argument |-> argument,
                            cursor |-> currentRegionIndex,
                            assigned |-> RoundRobin(count, OrDefault(argument))])
  /\ UNCHANGED <<currentRegionIndex, waited, loop>>

\* createProxy(region), lines 828-831, with getNextRegion, lines 201-205
createProxy(argument) ==
  /\ Len(regionCalls) < MaxCalls
  /\ regionCalls' = Append(regionCalls,
                           [op |-> "createProxy", argument |-> argument,
                            cursor |-> currentRegionIndex,
                            assigned |-> IF argument.given
                                           THEN <<argument.value[1]>>
                                           ELSE <<regions[currentRegionIndex + 1]>>])
  /\ currentRegionIndex' = IF argument.given THEN currentRegionIndex
                           ELSE (currentRegionIndex + 1) % Len(regions)
  /\ UNCHANGED <<waited, loop>>

\* shouldRetryError: transient errors are retried, permanent ones are not
shouldRetryError(outcome) == outcome = "transient"

\* an error of the operation: what it is and the attempt that raised it
NoError == [kind |-> "none", attempt |-> 0]

\* retryWithBackoff line 231: `throw error`, the error just caught
ThrowFirstError(outcome, k) ==
  [kind |-> IF k > 1 THEN "transient" ELSE outcome, attempt |-> 1]
ThrowError(outcome, k) == [kind |-> outcome, attempt |-> k]

Min(a, b) == IF a <= b THEN a ELSE b

\* retryWithBackoff lines 234-237: the delay after failed attempt k
BackoffDelayFlat(k) == Min(baseDelay, maxDelay)
BackoffDelay(k) == Min(baseDelay * 2 ^ (k - 1), maxDelay)

\* `this.globalTaskDefinitionLock = creationPromise`
NewLockNone(u) == 0
NewLock(u) == u

\* lines 624-626: `if (this.globalTaskDefinitionLock === creationPromise)
\* this.globalTaskDefinitionLock = null`
ReleaseLockNever(u) == globalTaskDefinitionLock
ReleaseLock(u) == IF globalTaskDefinitionLock = u THEN 0 ELSE globalTaskDefinitionLock

\* `while (this.globalTaskDefinitionLock)`: evaluated on entry and again after
\* every wait
LockBusyIf(afterWait) == ~afterWait /\ globalTaskDefinitionLock # 0
LockBusy(afterWait) == globalTaskDefinitionLock # 0

\* createProxies line 717: targetRegions.slice(i, i + maxConcurrentOperations),
\* the units of the batch that starts at i
Batch(i) == {u \in Units : i < u /\ u <= i + maxConcurrentOperations}

\* line 737: another batch follows the one that starts at i
MoreBatchesAlways(i) == TRUE
MoreBatches(i) == i + maxConcurrentOperations < Len(targetRegions)

\* line 716: the loop starts with i = 0, the first batch is mapped at once
LoopStart == [i |-> 0, at |-> "awaitBatch", delayed |-> 0]

\* no serviceName yet
NoName == <<>>

\* a new manager in an account without the cluster and the security group,
\* no service named yet
\* (constructor line 80: the cache is empty)
InitInfrastructure ==
  /\ clStep = [u \in Units |-> "idle"]
  /\ sgStep = [u \in Units |-> "idle"]
  /\ securityGroupCache = [r \in Regions |-> FALSE]
  /\ cloudClusters = [r \in Regions |-> FALSE]
  /\ cloudGroups = [r \in Regions |-> FALSE]
  /\ serviceNames = [u \in Units |-> NoName]

\* createProxies(count, regions) is called: the units of the first batch are
\* in createProxyService ("idle": on their way to createTaskDefinition), the
\* others are not yet submitted
InitProxyManager(regionsOfUnits) ==
  /\ targetRegions = regionsOfUnits
  /\ currentRegionIndex = 0
  /\ regionCalls = <<>>
  /\ waited = [u \in Units |-> 0]
  /\ loop = LoopStart
  /\ pc = [u \in Units |-> IF u \in Batch(0) THEN "idle" ELSE "unsent"]
  /\ awaiting = [u \in Units |-> 0]
  /\ errKind = [u \in Units |-> "none"]
  /\ errBy = [u \in Units |-> 0]
  /\ taskDefinitionCache = [r \in Regions |-> 0]
  /\ taskDefinitionMutex = [r \in Regions |-> 0]
  /\ globalTaskDefinitionLock = 0
  /\ promise = [u \in Units |-> "none"]
  /\ cstep = [u \in Units |-> "none"]
  /\ attempt = [u \in Units |-> 0]
  /\ delays = [u \in Units |-> <<>>]
  /\ thrown = [u \in Units |-> NoError]
  /\ lastError = [u \in Units |-> NoError]
  /\ reactions = [u \in Units |-> <<>>]
  /\ microtasks = <<>>
  /\ creations = [r \in Regions |-> 0]
  /\ InitInfrastructure

\* `await p` by unit u, the microtask queue being mq once u's job is done
Await(u, p, label, mq) ==
  /\ pc' = [pc EXCEPT ![u] = label]
  /\ awaiting' = [awaiting EXCEPT ![u] = p]
  /\ IF promise[p] = "pending"
       THEN /\ reactions' = [reactions EXCEPT ![p] = Append(@, u)]
            /\ microtasks' = mq
       ELSE /\ reactions' = reactions
            /\ microtasks' = Append(mq, u)
  /\ UNCHANGED <<targetRegions, errKind, errBy, taskDefinitionCache,
                 taskDefinitionMutex, globalTaskDefinitionLock, promise,
                 cstep, attempt, delays, thrown, lastError, creations>>

\* createTaskDefinition lines 615-620: start the creation, store its promise
\* in the region mutex and in the global lock, await it
StartCreation(u, mq) ==
  LET r == targetRegions[u] IN
  /\ promise' = [promise EXCEPT ![u] = "pending"]
  /\ cstep' = [cstep EXCEPT ![u] = "delay"]
  /\ creations' = [creations EXCEPT ![r] = @ + 1]
  /\ taskDefinitionMutex' = [taskDefinitionMutex EXCEPT ![r] = u]
  /\ globalTaskDefinitionLock' = NewLock(u)
  /\ reactions' = [reactions EXCEPT ![u] = <<u>>]
  /\ pc' = [pc EXCEPT ![u] = "awaitCreation"]
  /\ awaiting' = [awaiting EXCEPT ![u] = u]
  /\ microtasks' = mq
  /\ UNCHANGED <<targetRegions, errKind, errBy, taskDefinitionCache, attempt, delays, thrown, lastError>>

\* createTaskDefinition lines 609-617: the wait loop on the global lock
WaitGlobalLock(u, afterWait, mq) ==
  IF LockBusy(afterWait)
    THEN Await(u, globalTaskDefinitionLock, "awaitLock", mq)
    ELSE StartCreation(u, mq)

\* a createTaskDefinition call returns or throws
Return(u, label, kind, by, mq) ==
  /\ pc' = [pc EXCEPT ![u] = label]
  /\ awaiting' = [awaiting EXCEPT ![u] = 0]
  /\ errKind' = [errKind EXCEPT ![u] = kind]
  /\ errBy' = [errBy EXCEPT ![u] = by]
  /\ microtasks' = mq

\* createProxyService reaches createTaskDefinition(region), lines 593-612
createTaskDefinition(u) ==
  LET r == targetRegions[u] IN
  /\ microtasks = <<>>
  /\ pc[u] = "idle"
  /\ IF taskDefinitionCache[r] # 0
       THEN /\ Return(u, "haveTaskDef", "none", 0, microtasks)
            /\ UNCHANGED <<targetRegions, taskDefinitionCache, taskDefinitionMutex,
                           globalTaskDefinitionLock, promise, cstep, attempt, delays, thrown, lastError,
                           reactions, creations>>
       ELSE IF taskDefinitionMutex[r] # 0
         THEN Await(u, taskDefinitionMutex[r], "awaitMutex", microtasks)
         ELSE WaitGlobalLock(u, FALSE, microtasks)

\* createTaskDefinitionWithMutex: the random delay is over, retryWithBackoff
\* makes its first attempt
DelayElapsed(u) ==
  /\ microtasks = <<>>
  /\ cstep[u] = "delay"
  /\ cstep' = [cstep EXCEPT ![u] = "call"]
  /\ attempt' = [attempt EXCEPT ![u] = 1]
  /\ UNCHANGED <<targetRegions, pc, awaiting, errKind, errBy, taskDefinitionCache,
                 taskDefinitionMutex, globalTaskDefinitionLock, promise,
                 reactions, microtasks, creations, delays, thrown, lastError>>

\* the creation promise of unit u settles: its reactions become microtasks
Settle(u, state) ==
  /\ promise' = [promise EXCEPT ![u] = state]
  /\ cstep' = [cstep EXCEPT ![u] = "done"]
  /\ microtasks' = reactions[u]
  /\ reactions' = [reactions EXCEPT ![u] = <<>>]

\* retryWithBackoff lines 221-244 around createTaskDefinitionInternal, and
\* createTaskDefinitionWithMutex lines 642-643
RegisterReturns(u, outcome) ==
  LET r == targetRegions[u]
      error == [kind |-> outcome, attempt |-> attempt[u]] IN
  /\ microtasks = <<>>
  /\ cstep[u] = "call"
  /\ IF outcome = "ok"
       THEN /\ taskDefinitionCache' = [taskDefinitionCache EXCEPT ![r] = u]
            /\ Settle(u, "fulfilled")
            /\ UNCHANGED <<delays, thrown, lastError>>
       ELSE /\ lastError' = [lastError EXCEPT ![u] = error]
            /\ IF ~shouldRetryError(outcome) \/ attempt[u] = maxRetries
                 THEN /\ Settle(u, "rejected")
                      /\ thrown' = [thrown EXCEPT ![u] = ThrowError(outcome, attempt[u])]
                      /\ UNCHANGED <<taskDefinitionCache, delays>>
                 ELSE /\ cstep' = [cstep EXCEPT ![u] = "backoff"]
                      /\ delays' = [delays EXCEPT ![u] = Append(@, BackoffDelay(attempt[u]))]
                      /\ UNCHANGED <<taskDefinitionCache, promise, microtasks,
                                     reactions, thrown>>
  /\ UNCHANGED <<targetRegions, pc, awaiting, errKind, errBy, taskDefinitionMutex,
                 globalTaskDefinitionLock, attempt, creations>>

\* retryWithBackoff line 242: the delay is over, next attempt
BackoffElapsed(u) ==
  /\ microtasks = <<>>
  /\ cstep[u] = "backoff"
  /\ cstep' = [cstep EXCEPT ![u] = "call"]
  /\ attempt' = [attempt EXCEPT ![u] = attempt[u] + 1]
  /\ UNCHANGED <<targetRegions, pc, awaiting, errKind, errBy, taskDefinitionCache,
                 taskDefinitionMutex, globalTaskDefinitionLock, promise,
                 reactions, microtasks, creations, delays, thrown, lastError>>

\* createTaskDefinition lines 619-628: the owner resumes from
\* `await creationPromise` and runs the finally block
ResumeOwner(u, mq) ==
  LET r == targetRegions[u] IN
  /\ taskDefinitionMutex' = [taskDefinitionMutex EXCEPT ![r] = 0]
  /\ globalTaskDefinitionLock' = ReleaseLock(u)
  /\ IF promise[u] = "fulfilled"
       THEN Return(u, "haveTaskDef", "none", 0, mq)
       ELSE Return(u, "rejected", "taskdef", u, mq)
  /\ UNCHANGED <<targetRegions, taskDefinitionCache, promise, cstep, attempt, delays, thrown, lastError,
                 reactions, creations>>

\* createTaskDefinition lines 602-606: resumed from the region mutex
ResumeMutexWaiter(u, mq) ==
  LET r == targetRegions[u]
      p == awaiting[u] IN
  IF promise[p] = "rejected"
    THEN /\ Return(u, "rejected", "taskdef", p, mq)
         /\ UNCHANGED <<targetRegions, taskDefinitionCache, taskDefinitionMutex,
                        globalTaskDefinitionLock, promise, cstep, attempt, delays, thrown, lastError,
                        reactions, creations>>
    ELSE IF taskDefinitionCache[r] # 0
      THEN /\ Return(u, "haveTaskDef", "none", 0, mq)
           /\ UNCHANGED <<targetRegions, taskDefinitionCache, taskDefinitionMutex,
                          globalTaskDefinitionLock, promise, cstep, attempt, delays, thrown, lastError,
                          reactions, creations>>
      ELSE WaitGlobalLock(u, FALSE, mq)

\* createTaskDefinition lines 610-612: resumed from the global lock
ResumeLockWaiter(u, mq) ==
  LET p == awaiting[u] IN
  IF promise[p] = "rejected"
    THEN /\ Return(u, "rejected", "taskdef", p, mq)
         /\ UNCHANGED <<targetRegions, taskDefinitionCache, taskDefinitionMutex,
                        globalTaskDefinitionLock, promise, cstep, attempt, delays, thrown, lastError,
                        reactions, creations>>
    ELSE WaitGlobalLock(u, TRUE, mq)

\* the next microtask runs: a continuation of createTaskDefinition
RunMicrotask ==
  /\ microtasks # <<>>
  /\ LET u == Head(microtasks)
         mq == Tail(microtasks) IN
       CASE pc[u] = "awaitCreation" -> ResumeOwner(u, mq)
         [] pc[u] = "awaitMutex" -> ResumeMutexWaiter(u, mq)
         [] pc[u] = "awaitLock" -> ResumeLockWaiter(u, mq)

\* the cloud with the service n in the given state
WithService(cloud, n, state) ==
  [m \in DOMAIN cloud \cup {n} |-> IF m = n THEN state ELSE cloud[m]]

\* createProxyService lines 879-907: with the task definition in hand the
\* unit's own networking lookups and CreateService call succeed or fail
CreateService(u, ok) ==
  /\ microtasks = <<>>
  /\ pc[u] = "haveTaskDef"
  /\ IF ok THEN /\ Return(u, "submitted", "none", 0, microtasks)
                /\ services' = WithService(services, u,
                                            [status |-> "ACTIVE", runningCount |-> 0])
           ELSE /\ Return(u, "rejected", "service", 0, microtasks)
                /\ UNCHANGED services
  /\ UNCHANGED <<targetRegions, taskDefinitionCache, taskDefinitionMutex,
                 globalTaskDefinitionLock, promise, cstep, attempt, delays, thrown, lastError, reactions,
                 creations>>

\* createProxyService(region) of unit u, lines 867-910, from its call to its
\* result in one step: the service is created, or the call throws
createProxyServiceSettles(u, ok) ==
  /\ microtasks = <<>>
  /\ pc[u] = "idle"
  /\ IF ok THEN /\ Return(u, "submitted", "none", 0, microtasks)
                /\ services' = WithService(services, u,
                                            [status |-> "ACTIVE", runningCount |-> 0])
           ELSE /\ Return(u, "rejected", "service", 0, microtasks)
                /\ UNCHANGED services
  /\ UNCHANGED <<targetRegions, taskDefinitionCache, taskDefinitionMutex,
                 globalTaskDefinitionLock, promise, cstep, attempt, delays, thrown, lastError, reactions,
                 creations, loop>>

\* createProxies lines 723-740: Promise.allSettled of the batch resolves and,
\* another batch following, delay(1000) is awaited
batchSettles ==
  /\ loop.at = "awaitBatch"
  /\ \A u \in Batch(loop.i) : pc[u] \in {"submitted", "rejected"}
  /\ MoreBatches(loop.i)
  /\ loop' = [loop EXCEPT !.at = "delay"]
  /\ UNCHANGED <<tdvars, flvars>>

\* lines 739, 716-720: the delay is over, i += maxConcurrentOperations and the
\* units of the next batch are submitted
delayEnds ==
  /\ loop.at = "delay"
  /\ loop' = [i |-> loop.i + maxConcurrentOperations, at |-> "awaitBatch",
              delayed |-> loop.delayed + batchDelay]
  /\ pc' = [u \in Units |->
              IF u \in Batch(loop.i + maxConcurrentOperations) THEN "idle" ELSE pc[u]]
  /\ UNCHANGED <<targetRegions, awaiting, errKind, errBy, taskDefinitionCache,
                 taskDefinitionMutex, globalTaskDefinitionLock, promise, cstep,
                 attempt, delays, thrown, lastError, reactions, microtasks, creations,
                 flvars>>

\* ----------------------------------------------- cluster and security group
\* createProxyService lines 869-872 calls ensureCluster(region), lines
\* 337-358: DescribeClusters is sent
ensureCluster(u) ==
  /\ clStep[u] = "idle"
  /\ clStep' = [clStep EXCEPT ![u] = "describing"]
  /\ UNCHANGED <<sgStep, securityGroupCache, cloudClusters, cloudGroups, serviceNames>>

\* lines 341-353: DescribeClusters answers; without an ACTIVE cluster
\* CreateCluster is sent
DescribeClustersReturns(u) ==
  /\ clStep[u] = "describing"
  /\ clStep' = [clStep EXCEPT ![u] =
                  IF cloudClusters[targetRegions[u]] THEN "done" ELSE "creating"]
  /\ UNCHANGED <<sgStep, securityGroupCache, cloudClusters, cloudGroups, serviceNames>>

\* lines 347-352: CreateCluster answers (the request is idempotent)
CreateClusterReturns(u) ==
  /\ clStep[u] = "creating"
  /\ cloudClusters' = [cloudClusters EXCEPT ![targetRegions[u]] = TRUE]
  /\ clStep' = [clStep EXCEPT ![u] = "done"]
  /\ UNCHANGED <<sgStep, securityGroupCache, cloudGroups, serviceNames>>

\* createProxyService lines 874-878 calls ensureSecurityGroup(region), lines
\* 431-457: a cached id is returned, otherwise findExistingSecurityGroup
\* sends DescribeSecurityGroups
ensureSecurityGroup(u) ==
  /\ clStep[u] = "done"
  /\ sgStep[u] = "idle"
  /\ sgStep' = [sgStep EXCEPT ![u] =
                  IF securityGroupCache[targetRegions[u]] THEN "done" ELSE "finding"]
  /\ UNCHANGED <<clStep, securityGroupCache, cloudClusters, cloudGroups, serviceNames>>

\* lines 440-453: the lookup answers; an existing group is cached and
\* returned, otherwise createNewSecurityGroup sends CreateSecurityGroup
\* (lines 559-563)
DescribeSecurityGroupsReturns(u) ==
  LET r == targetRegions[u] IN
  /\ sgStep[u] = "finding"
  /\ IF cloudGroups[r]
       THEN /\ sgStep' = [sgStep EXCEPT ![u] = "done"]
            /\ securityGroupCache' = [securityGroupCache EXCEPT ![r] = TRUE]
       ELSE /\ sgStep' = [sgStep EXCEPT ![u] = "creating"]
            /\ UNCHANGED securityGroupCache
  /\ UNCHANGED <<clStep, cloudClusters, cloudGroups, serviceNames>>

\* lines 559-589, 455-456: CreateSecurityGroup answers with the new group, or
\* with "already exists" and the existing group is looked up; either way the
\* id is cached and returned
CreateSecurityGroupReturns(u) ==
  LET r == targetRegions[u] IN
  /\ sgStep[u] = "creating"
  /\ cloudGroups' = [cloudGroups EXCEPT ![r] = TRUE]
  /\ securityGroupCache' = [securityGroupCache EXCEPT ![r] = TRUE]
  /\ sgStep' = [sgStep EXCEPT ![u] = "done"]
  /\ UNCHANGED <<clStep, cloudClusters, serviceNames>>

\* ------------------------------------------------------------- serviceName
\* createProxyService line 884 at clock reading t:
\* `${this.taskDefinitionFamily}-${region}-${Date.now()}`
ServiceNameAt(region, t) == <<"stockbot-socks5-proxy", region, t>>

\* the clock readings of the names given so far
Stamps == {serviceNames[u][3] : u \in {v \in Units : serviceNames[v] # NoName}}

\* createProxyService lines 880-909 for unit u, its infrastructure ensured:
\* the service is named at clock reading t, no earlier than the readings
\* before it, and CreateService is sent; the cloud creates the service (or
\* answers with the service of that name and these parameters), or the
\* request fails and the call throws
createService(u, t, ok) ==
  /\ \A t0 \in Stamps : t0 <= t
  /\ createProxyServiceSettles(u, ok)
  /\ serviceNames' = [serviceNames EXCEPT ![u] = ServiceNameAt(targetRegions[u], t)]
  /\ UNCHANGED <<clStep, sgStep, securityGroupCache, cloudClusters, cloudGroups>>

\* ==================================================================== fleet
\* `${family}-${region}-${Date.now()}`: the name of the service of unit u
ServiceName(u) == u

\* the public address of the network interface of a service's running task
Address(serviceName) == 100 + serviceName

\* `socks5://${publicIp}:${this.config.socksPort}`
ProxyUrlOfName(serviceName, publicIp) == <<"socks5", serviceName, socksPort>>
ProxyUrl(serviceName, publicIp) == <<"socks5", publicIp, socksPort>>

\* proxyObject of waitForServiceReadiness, lines 807-814 (createdAt and the
\* teardown closure, which holds region and serviceName, left out)
ProxyObject(serviceName, region) ==
  [url |-> ProxyUrl(serviceName, Address(serviceName)), region |-> region,
   serviceName |-> serviceName, publicIp |-> Address(serviceName)]

\* saveState lines 121-130: the records written for a fleet
SavedState(proxies) ==
  [i \in 1 .. Len(proxies) |->
     [url |-> proxies[i].url, region |-> proxies[i].region,
      serviceName |-> proxies[i].serviceName, publicIp |-> proxies[i].publicIp]]

\* saveState line 132: fs.writeFile is called with the fleet as it is now; the
\* caller `by` resumes when the write completes
NewWrite(by, proxies) == [by |-> by, data |-> SavedState(proxies)]

\* A manager beside the state file and the cloud services it finds: just
\* constructed (progress = "new", lines 35-37), or with init() behind it and
\* every unit of the file validated (progress = "done")
InitFleet(file, cloud, progress) ==
  /\ activeProxies = IF progress = "done" THEN file.activeProxies ELSE <<>>
  /\ stateFile = file
  /\ writes = {}
  /\ services = cloud
  /\ result = [returned |-> FALSE, proxies |-> <<>>]
  /\ initState = progress
  /\ validation = [n \in DOMAIN cloud |-> IF progress = "done" THEN "proxy" ELSE "pending"]
  /\ persisted = IF progress = "done" THEN file.activeProxies ELSE <<>>
  /\ tdState = [n \in DOMAIN cloud |-> "none"]
  /\ taState = "idle"

\* no state file: fs.readFile fails with ENOENT
NoFile == [exists |-> FALSE, activeProxies |-> <<>>]

\* createProxies line 747: every submission of Phase 1 has settled
Phase1Done ==
  \A v \in Units : pc[v] \in {"submitted", "rejected", "saving", "ready", "readinessFailed"}

\* waitForServiceReadiness lines 796-826 for the service of unit u:
\* waitForTaskRunning returns the public address of the running task or
\* throws its timeout
waitForServiceReadiness(u, running) ==
  /\ microtasks = <<>>
  /\ Phase1Done
  /\ pc[u] = "submitted"
  /\ IF running
       THEN /\ activeProxies' =
                 Append(activeProxies, ProxyObject(ServiceName(u), targetRegions[u]))
            /\ writes' = writes \cup {NewWrite(<<"ready", u>>, activeProxies')}
            /\ pc' = [pc EXCEPT ![u] = "saving"]
            /\ services' = [services EXCEPT ![ServiceName(u)].runningCount = 1]
       ELSE /\ pc' = [pc EXCEPT ![u] = "readinessFailed"]
            /\ UNCHANGED <<activeProxies, writes, services>>
  /\ UNCHANGED <<targetRegions, awaiting, errKind, errBy, taskDefinitionCache,
                 taskDefinitionMutex, globalTaskDefinitionLock, promise, cstep,
                 attempt, delays, thrown, lastError, reactions, microtasks, creations, stateFile,
                 result, opvars>>

\* waitForTaskRunning line 918: the test of the while loop
DeadlineAtOnce(elapsed) == TRUE
Deadline(elapsed) == ~(elapsed < maxWaitTime)

\* waitForTaskRunning(region, serviceName), lines 912-949, one turn of its
\* loop for the service of unit u, and what waitForServiceReadiness does with
\* its result.  Past the deadline the loop ends and the timeout is thrown.
\* Otherwise the requests, which take `took` ms, show a RUNNING task with a
\* public address ("address"), show none ("pending") or fail ("error"), and
\* in the last two cases the turn ends with delay(10000).
waitForTaskRunning(u, outcome, took) ==
  IF Deadline(waited[u])
    THEN /\ waitForServiceReadiness(u, FALSE)
         /\ UNCHANGED waited
    ELSE IF outcome = "address"
      THEN /\ waitForServiceReadiness(u, TRUE)
           /\ waited' = [waited EXCEPT ![u] = @ + took]
      ELSE /\ microtasks = <<>>
           /\ Phase1Done
           /\ pc[u] = "submitted"
           /\ waited' = [waited EXCEPT ![u] = @ + took + pollDelay]
           /\ UNCHANGED <<tdvars, flvars>>

\* fs.writeFile of saveState completes: the file holds the data of this call
\* (two calls in flight complete in either order), and the caller resumes
writeFileReturns(w) ==
  /\ microtasks = <<>>
  /\ w \in writes
  /\ writes' = writes \ {w}
  /\ stateFile' = [exists |-> TRUE, activeProxies |-> w.data]
  /\ pc' = IF w.by[1] = "ready" THEN [pc EXCEPT ![w.by[2]] = "ready"] ELSE pc
  /\ initState' = IF w.by[1] = "init" THEN "done" ELSE initState
  /\ tdState' = IF w.by[1] = "teardown" THEN [tdState EXCEPT ![w.by[2]] = "done"]
                                        ELSE tdState
  /\ taState' = IF w.by[1] = "all" THEN "done" ELSE taState
  /\ UNCHANGED <<targetRegions, awaiting, errKind, errBy, taskDefinitionCache,
                 taskDefinitionMutex, globalTaskDefinitionLock, promise, cstep,
                 attempt, delays, thrown, lastError, reactions, microtasks, creations, activeProxies,
                 services, result, validation, persisted>>

\* createProxies lines 755-774: successfulProxies, in the order of serviceSpecs
successfulProxies ==
  LET ready == SelectSeq([u \in 1 .. Len(targetRegions) |-> u],
                         LAMBDA u : pc[u] = "ready")
  IN  [i \in 1 .. Len(ready) |-> ProxyObject(ServiceName(ready[i]), targetRegions[ready[i]])]

\* createProxies line 755: every readiness promise has settled; it returns
createProxiesReturns ==
  /\ microtasks = <<>>
  /\ Units # {}
  /\ ~result.returned
  /\ \A u \in Units : pc[u] \in {"rejected", "ready", "readinessFailed"}
  /\ result' = [returned |-> TRUE, proxies |-> successfulProxies]
  /\ UNCHANGED <<tdvars, activeProxies, stateFile, writes, services, opvars>>

\* ------------------------------------------------------------------ init()
\* what DescribeServices reports for a service: its status and runningCount;
\* MISSING stands for a response without services[0]
ServiceStates ==
  {[status |-> "ACTIVE", runningCount |-> 1], [status |-> "ACTIVE", runningCount |-> 0],
   [status |-> "INACTIVE", runningCount |-> 0], [status |-> "MISSING", runningCount |-> 0]}

\* a proxies.json written by saveState for k units spread over the regions
FileOf(k) ==
  [exists |-> TRUE,
   activeProxies |-> SavedState([n \in 1 .. k |-> ProxyObject(n, ((n - 1) % NumRegions) + 1)])]

\* validateActiveProxies line 153
IsActiveAnyCount(service) == service.status = "ACTIVE"
IsActive(service) == service.status = "ACTIVE" /\ service.runningCount > 0

\* the serviceNames of the in-memory fleet
FleetNames == {activeProxies[i].serviceName : i \in 1 .. Len(activeProxies)}

\* init() lines 91-94 up to the await in validateActiveProxies line 166:
\* loadState reads the file (a missing file gives an empty fleet) and one
\* DescribeServices request per unit is sent
loadState ==
  /\ initState = "new"
  /\ activeProxies' = IF stateFile.exists THEN stateFile.activeProxies ELSE <<>>
  /\ persisted' = activeProxies'
  /\ initState' = "validating"
  /\ UNCHANGED <<tdvars, stateFile, writes, services, result, validation, tdState,
                 taState>>

\* validateActiveProxies lines 145-163 for one unit: DescribeServices answers
\* or throws
DescribeServicesReturns(n, ok) ==
  /\ initState = "validating"
  /\ n \in FleetNames
  /\ validation[n] = "pending"
  /\ validation' = [validation EXCEPT ![n] =
                      IF ~ok THEN "error"
                      ELSE IF IsActive(services[n]) THEN "proxy" ELSE "null"]
  /\ UNCHANGED <<tdvars, activeProxies, stateFile, writes, services, result,
                 initState, persisted, tdState, taState>>

\* validateActiveProxies lines 166-172: every validation has settled
validateActiveProxiesReturns ==
  /\ initState = "validating"
  /\ \A n \in FleetNames : validation[n] # "pending"
  /\ LET newValidProxies ==
           SelectSeq(activeProxies, LAMBDA proxy : validation[proxy.serviceName] = "proxy")
     IN  IF Len(newValidProxies) # Len(activeProxies)
           THEN /\ activeProxies' = newValidProxies
                /\ writes' = writes \cup {NewWrite(<<"init", 0>>, newValidProxies)}
                /\ initState' = "saving"
           ELSE /\ initState' = "done"
                /\ UNCHANGED <<activeProxies, writes>>
  /\ UNCHANGED <<tdvars, stateFile, services, result, validation, persisted, tdState,
                 taState>>

\* ------------------------------------------------- the state file, in full
\* the fields saveState writes for a unit, lines 122-126
Fields == {"url", "region", "serviceName", "publicIp", "createdAt"}

\* new Date(t).toISOString()
ToISOString(t) == <<"ISO", t>>

\* a record of proxies.json for the service n: the fields of `without` are
\* missing and `more` are fields saveState does not write
FileRecord(n, region, createdAt, without, more) ==
  [field \in (Fields \ without) \cup more |->
     CASE field = "url" -> ProxyUrl(n, Address(n))
       [] field = "region" -> region
       [] field = "serviceName" -> n
       [] field = "publicIp" -> Address(n)
       [] field = "createdAt" -> createdAt
       [] OTHER -> "other"]

\* the files of n records, each written at some time before this start-up:
\* the record of service i is in one of two regions, has its createdAt or
\* not, and has a field more or not
FilesOf(n) ==
  LET Shapes == [region : 1 .. 2, without : {{}, {"createdAt"}}, more : {{}, {"note"}}]
  IN  {[i \in 1 .. n |-> FileRecord(i, shape[i].region, ToISOString(i),
                                    shape[i].without, shape[i].more)] :
         shape \in [1 .. n -> Shapes]}

\* loadState lines 103-106: the parsed record spread into a new object, with
\* the teardown closure over its region and serviceName
Loaded(record) ==
  [field \in DOMAIN record \cup {"teardown"} |->
     IF field = "teardown" THEN <<record.region, record.serviceName>>
                           ELSE record[field]]

\* loadState lines 98-116 alone, for a file that exists and parses
loadStateCall ==
  /\ initState = "new"
  /\ stateFile.exists
  /\ activeProxies' = [i \in 1 .. Len(stateFile.activeProxies) |->
                         Loaded(stateFile.activeProxies[i])]
  /\ initState' = "loaded"
  /\ UNCHANGED <<tdvars, stateFile, writes, services, result, validation, persisted,
                 tdState, taState>>

\* saveState line 126: proxy.createdAt || new Date().toISOString()
CreatedAtNow(proxy, t) == ToISOString(t)
CreatedAtOr(proxy, t) ==
  IF "createdAt" \in DOMAIN proxy THEN proxy.createdAt ELSE ToISOString(t)

\* saveState lines 121-127: the record written for a unit at time t
\* (JSON.stringify leaves out a field the unit does not have)
Saved(proxy, t) ==
  [field \in {f \in Fields : f \in DOMAIN proxy \/ f = "createdAt"} |->
     IF field = "createdAt" THEN CreatedAtOr(proxy, t) ELSE proxy[field]]

\* saveState lines 119-133 called right after loadState: fs.writeFile is
\* called with the records of the fleet
saveStateCall ==
  /\ initState = "loaded"
  /\ writes' = writes \cup
                 {[by |-> <<"init", 0>>,
                   data |-> [i \in 1 .. Len(activeProxies) |-> Saved(activeProxies[i], now)]]}
  /\ initState' = "saving"
  /\ UNCHANGED <<tdvars, activeProxies, stateFile, services, result, validation,
                 persisted, tdState, taState>>

\* ---------------------------------------------------------------- teardown
\* proxy.teardown() is called (createTeardownFunction lines 265-272): the
\* DeleteService request is sent
teardown(n) ==
  /\ initState = "done"
  /\ taState = "idle"
  /\ n \in FleetNames
  /\ tdState[n] = "none"
  /\ tdState' = [tdState EXCEPT ![n] = "deleting"]
  /\ UNCHANGED <<tdvars, activeProxies, stateFile, writes, services, result,
                 initState, validation, persisted, taState>>

\* this.activeProxies.filter(p => p.serviceName !== serviceName), line 275
WithoutService(proxies, n) == SelectSeq(proxies, LAMBDA p : p.serviceName # n)

\* createTeardownFunction lines 268-279: DeleteService answers, or it throws
\* and the error is logged
DeleteServiceReturns(n, ok) ==
  /\ tdState[n] = "deleting"
  /\ IF ok
       THEN /\ services' = [services EXCEPT ![n] = [status |-> "INACTIVE", runningCount |-> 0]]
            /\ activeProxies' = WithoutService(activeProxies, n)
            /\ writes' = writes \cup {NewWrite(<<"teardown", n>>, activeProxies')}
            /\ tdState' = [tdState EXCEPT ![n] = "saving"]
       ELSE /\ tdState' = [tdState EXCEPT ![n] = "failed"]
            /\ UNCHANGED <<services, activeProxies, writes>>
  /\ UNCHANGED <<tdvars, stateFile, result, initState, validation, persisted, taState>>

\* teardownAll lines 983-987: the teardown of every unit of the fleet is
\* called, then Promise.all is awaited
teardownAll ==
  /\ initState = "done"
  /\ taState = "idle"
  /\ \A n \in DOMAIN tdState : tdState[n] \in {"none", "done", "failed"}
  /\ tdState' = [n \in DOMAIN tdState |->
                   IF n \in FleetNames THEN "deleting" ELSE tdState[n]]
  /\ taState' = "waiting"
  /\ UNCHANGED <<tdvars, activeProxies, stateFile, writes, services, result,
                 initState, validation, persisted>>

\* teardownAll lines 987-990: every teardown has returned
teardownAllContinues ==
  /\ taState = "waiting"
  /\ \A n \in DOMAIN tdState : tdState[n] \notin {"deleting", "saving"}
  /\ activeProxies' = <<>>
  /\ writes' = writes \cup {NewWrite(<<"all", 0>>, activeProxies')}
  /\ taState' = "saving"
  /\ UNCHANGED <<tdvars, stateFile, services, result, initState, validation,
                 persisted, tdState>>

\* ============================================================ PriorityQueue
\* null / no entry
NoUrl == 0

\* the clock: Date.now() at start-up, and the grain of its advance
StartTime == 2 * priorityCheckInterval
TickUnit == priorityCheckInterval \div 2

Workers == 1 .. NumWorkers

\* urls.indexOf(url), 0-based, -1 when absent
IndexOf(url) ==
  IF \E i \in 1 .. Len(urls) : urls[i] = url
    THEN (CHOOSE i \in 1 .. Len(urls) :
            urls[i] = url /\ \A j \in 1 .. i - 1 : urls[j] # url) - 1
    ELSE -1

\* priorityMap.has(url) and the position of the entry in the Map
HasPriority(url) == \E i \in 1 .. Len(priorityMap) : priorityMap[i].url = url
EntryOf(url) == CHOOSE i \in 1 .. Len(priorityMap) : priorityMap[i].url = url

\* priorityMap.delete(url)
DeleteNothing(url) == priorityMap
DeleteEntry(url) == SelectSeq(priorityMap, LAMBDA e : e.url # url)

\* the last step was no setPriority call
NoSet == [url |-> NoUrl, priority |-> 0, was |-> 0]

\* PriorityQueue.initialize(urls) with a rotation of n targets
InitPriorityQueue(n, promotable) ==
  /\ urls = [i \in 1 .. n |-> i]
  /\ hot = promotable
  /\ currentIndex = 0
  /\ priorityMap = <<>>
  /\ lastPriorityCheck = [u \in 1 .. n |-> 0]
  /\ now = StartTime
  /\ lastKind = "none"
  /\ lastUrl = NoUrl
  /\ baseWindow = <<>>
  /\ lastPullAt = [u \in 1 .. n |-> 0]
  /\ lastSet = NoSet


\* lines 647-651: the tier is unchanged, only addedAt is set
UpdateTimestampAll(url) ==
  [i \in 1 .. Len(priorityMap) |-> [priorityMap[i] EXCEPT !.addedAt = now]]
UpdateTimestamp(url) == [priorityMap EXCEPT ![EntryOf(url)].addedAt = now]

\* setPriority(url, priority), lines 636-660
setPriority(url, priority) ==
  /\ IF priority = 0
       THEN IF HasPriority(url)
              THEN /\ priorityMap' = DeleteEntry(url)
                   /\ lastPriorityCheck' = [lastPriorityCheck EXCEPT ![url] = 0]
              ELSE UNCHANGED <<priorityMap, lastPriorityCheck>>
       ELSE /\ priorityMap' =
                 IF HasPriority(url)
                   THEN IF priorityMap[EntryOf(url)].priority = priority
                          THEN UpdateTimestamp(url)
                          ELSE [priorityMap EXCEPT ![EntryOf(url)] =
                                  [url |-> url, priority |-> priority, addedAt |-> now]]
                   ELSE Append(priorityMap,
                               [url |-> url, priority |-> priority, addedAt |-> now])
            /\ UNCHANGED lastPriorityCheck
  /\ UNCHANGED <<urls, currentIndex, now, hot, lastKind, lastUrl, baseWindow,
                 lastPullAt>>

\* the call, and what it was made with
setPriorityCall(url, priority) ==
  /\ setPriority(url, priority)
  /\ lastSet' = [url |-> url, priority |-> priority,
                 was |-> IF HasPriority(url) THEN priorityMap[EntryOf(url)].priority
                                             ELSE 0]

\* initialize(urls) with a rotation of n targets, lines 628-633; the history
\* of the pulls starts again
initialize(n) ==
  /\ urls' = [i \in 1 .. n |-> i]
  /\ currentIndex' = 0
  /\ priorityMap' = <<>>
  /\ lastPriorityCheck' = [u \in 1 .. n |-> 0]
  /\ lastKind' = "none"
  /\ lastUrl' = NoUrl
  /\ baseWindow' = <<>>
  /\ lastPullAt' = [u \in 1 .. n |-> 0]
  /\ UNCHANGED <<now, hot>>

\* Math.floor(0 / 0) + 1
NaN == -1

\* lines 748-752: how many records each tier has
priorityStats ==
  [tier \in 1 .. 3 |->
     Cardinality({i \in 1 .. Len(priorityMap) : priorityMap[i].priority = tier})]

\* getStatus(), lines 747-760
getStatus ==
  [totalUrls |-> Len(urls),
   currentPosition |-> currentIndex + 1,
   cycle |-> IF Len(urls) = 0 THEN NaN ELSE (currentIndex \div Len(urls)) + 1,
   priorityStats |-> priorityStats]

\* the comparator of readyPriorityUrls.sort, lines 699-704
CompareNoTier(a, b) == a.addedAt - b.addedAt
Compare(a, b) ==
  IF a.priority # b.priority THEN a.priority - b.priority
                             ELSE a.addedAt - b.addedAt

\* Array.prototype.sort is stable: x goes behind every element that does not
\* compare greater than it
RECURSIVE InsertSorted(_, _)
InsertSorted(x, s) ==
  IF s = <<>> THEN <<x>>
  ELSE IF Compare(x, Head(s)) < 0 THEN <<x>> \o s
  ELSE <<Head(s)>> \o InsertSorted(x, Tail(s))

RECURSIVE Sort(_)
Sort(s) ==
  IF s = <<>> THEN <<>>
  ELSE InsertSorted(s[Len(s)], Sort(SubSeq(s, 1, Len(s) - 1)))

\* maxCutsForPriority[priority] || 0, lines 732-738
maxCutsForPriorityWide(priority) ==
  CASE priority = 1 -> maxLineCuts * 3
    [] priority = 2 -> maxLineCuts
    [] priority = 3 -> maxLineCuts \div 2
    [] OTHER -> 0
maxCutsForPriority(priority) ==
  CASE priority = 1 -> maxLineCuts * 2
    [] priority = 2 -> maxLineCuts
    [] priority = 3 -> maxLineCuts \div 2
    [] OTHER -> 0

\* canCutInLine(url, priority), lines 718-739
canCutInLine(url, priority) ==
  LET urlIndex == IndexOf(url)
      cutDistance == IF urlIndex >= currentIndex
                       THEN urlIndex - currentIndex
                       ELSE (Len(urls) - currentIndex) + urlIndex
  IN  urlIndex # -1 /\ cutDistance <= maxCutsForPriority(priority)

\* lines 684-692: the entries whose last priority check is old enough
readyPriorityUrls ==
  SelectSeq(priorityMap,
            LAMBDA info : now - lastPriorityCheck[info.url] >= priorityCheckInterval)

\* lines 707-715: the first sorted entry that can cut in line, or null
getNextPriorityUrl ==
  LET sorted == Sort(readyPriorityUrls)
      canCut == {i \in 1 .. Len(sorted) : canCutInLine(sorted[i].url, sorted[i].priority)}
  IN  IF canCut = {} THEN NoUrl
      ELSE sorted[CHOOSE i \in canCut : \A j \in canCut : i <= j].url

\* line 709: this.lastPriorityCheck.set(priorityUrl.url, now)
MarkCheckedAll(url, t) == [u \in DOMAIN lastPriorityCheck |-> t]
MarkChecked(url, t) == [lastPriorityCheck EXCEPT ![url] = t]

\* line 674: the cursor after a base pull
NextIndexStuck(i) == i
NextIndex(i) == (i + 1) % Len(urls)

\* the last Len(urls) base pulls
Slide(window, url) ==
  IF Len(window) = Len(urls) THEN Append(Tail(window), url) ELSE Append(window, url)

\* getNextUrl() called by worker w (PageWorker.start line 789), lines 663-676.
\* The call has no await: it runs to completion before any other worker's
\* call, so the callers differ by identity only.
getNextUrl(w) ==
  /\ Len(urls) # 0
  /\ UNCHANGED <<urls, priorityMap, now, hot>>
  /\ LET priorityUrl == getNextPriorityUrl IN
       IF priorityUrl # NoUrl
         THEN /\ lastPriorityCheck' = MarkChecked(priorityUrl, now)
              /\ lastKind' = "priority"
              /\ lastUrl' = priorityUrl
              /\ lastPullAt' = [lastPullAt EXCEPT ![priorityUrl] = now]
              /\ UNCHANGED <<currentIndex, baseWindow>>
         ELSE /\ currentIndex' = NextIndex(currentIndex)
              /\ lastKind' = "base"
              /\ lastUrl' = urls[currentIndex + 1]
              /\ baseWindow' = Slide(baseWindow, urls[currentIndex + 1])
              /\ UNCHANGED <<lastPriorityCheck, lastPullAt>>

\* Date.now() advances by d
Tick(d) ==
  /\ now + d <= StartTime + MaxTicks * TickUnit
  /\ now' = now + d
  /\ UNCHANGED <<urls, currentIndex, priorityMap, lastPriorityCheck, hot, lastKind,
                 lastUrl, baseWindow, lastPullAt>>

\* The queue reads the clock only through the differences now - lastCheck
\* (compared with priorityCheckInterval) and a.addedAt - b.addedAt (its
\* sign).  Date.now() advancing by d is therefore the same as every stored
\* timestamp receding by d, and a lastCheck older than the interval may be
\* kept as exactly the interval old.  The step is taken only when it keeps
\* every addedAt apart from the others.
Recede(t, d) ==
  IF t = 0 THEN 0
  ELSE IF t - d < now - priorityCheckInterval THEN now - priorityCheckInterval
  ELSE t - d

TickShift(d) ==
  /\ \A i, j \in 1 .. Len(priorityMap) :
       priorityMap[i].addedAt # priorityMap[j].addedAt =>
         Recede(priorityMap[i].addedAt, d) # Recede(priorityMap[j].addedAt, d)
  /\ priorityMap' = [i \in 1 .. Len(priorityMap) |->
                       [priorityMap[i] EXCEPT !.addedAt = Recede(@, d)]]
  /\ lastPriorityCheck' = [u \in DOMAIN lastPriorityCheck |->
                             Recede(lastPriorityCheck[u], d)]
  /\ lastPullAt' = [u \in DOMAIN lastPullAt |-> Recede(lastPullAt[u], d)]
  /\ UNCHANGED <<urls, currentIndex, now, hot, lastKind, lastUrl, baseWindow>>

\* ================================================================ StockBot
\* StockBot after setupProxies with proxyCount proxy units (lines 833-843,
\* 856-858): no worker yet
InitStockBot(proxyCount) ==
  /\ botProxies = [i \in 1 .. proxyCount |-> i]
  /\ workers = <<>>
  /\ initFailed = FALSE
  /\ isRunning = <<>>
  /\ wpc = <<>>
  /\ wurl = <<>>
  /\ closes = <<>>
  /\ lastFailed = 0

\* initializeWorkers line 888
WorkerCountPerProxy(urlCount, proxyCount) == proxyCount
WorkerCount(urlCount, proxyCount) == Min(urlCount, proxyCount)

\* initializeWorkers(urlCount), one turn of the loop of lines 892-897:
\* worker i+1 is constructed on proxies[i] and initialized, which can throw.
\* main passes the total number of generated urls.
initializeWorker(ok) ==
  LET i == Len(workers) IN
  /\ ~initFailed
  /\ i < WorkerCount(Len(urls), Len(botProxies))
  /\ \A w \in DOMAIN wpc : wpc[w] = "created"
  /\ IF ok
       THEN /\ workers' = Append(workers, [id |-> i + 1, proxy |-> botProxies[i + 1]])
            /\ isRunning' = Append(isRunning, FALSE)
            /\ wpc' = Append(wpc, "created")
            /\ wurl' = Append(wurl, NoUrl)
            /\ closes' = Append(closes, 0)
            /\ UNCHANGED initFailed
       ELSE /\ initFailed' = TRUE
            /\ UNCHANGED <<workers, isRunning, wpc, wurl, closes>>
  /\ UNCHANGED <<botProxies, lastFailed, pqvars>>

\* the first worker that startContinuousMonitoring line 1287 has not started
NextToStart ==
  IF \E w \in DOMAIN wpc : wpc[w] = "created"
    THEN CHOOSE w \in DOMAIN wpc : wpc[w] = "created" /\ \A v \in 1 .. w - 1 : wpc[v] # "created"
    ELSE 0

\* PageWorker.start lines 786-804, first turn: startContinuousMonitoring
\* starts the workers one after the other in one job, each pulling its first
\* target
startWorker(w) ==
  /\ ~initFailed
  /\ Len(workers) = WorkerCount(Len(urls), Len(botProxies))
  /\ w = NextToStart
  /\ getNextUrl(w)
  /\ isRunning' = [isRunning EXCEPT ![w] = TRUE]
  /\ wpc' = [wpc EXCEPT ![w] = "processing"]
  /\ wurl' = [wurl EXCEPT ![w] = lastUrl']
  /\ UNCHANGED <<botProxies, workers, initFailed, closes, lastFailed>>

\* every worker has been started
Monitoring == workers # <<>> /\ NextToStart = 0

\* PageWorker.start lines 812-814: the catch block logs and the loop goes on
AfterErrorCrash == "exited"
AfterError == "sleeping"

\* PageWorker.start lines 802-817: the processing of the worker's target ends
\* and the 500 ms sleep begins.  Structured data showing tier `tier` goes
\* through updateUrlPriority (processStockData line 1169); no data (the 30 s
\* timeout included) takes a screenshot; an error is caught, before the
\* priority update ("error") or in the persistence that follows it
\* ("dataError").  The awaits inside touch neither the queue nor the pool.
processingEnds(w, outcome, tier) ==
  /\ Monitoring
  /\ wpc[w] = "processing"
  /\ IF outcome \in {"data", "dataError"}
       THEN setPriority(wurl[w], tier)
       ELSE UNCHANGED pqvars
  /\ wpc' = [wpc EXCEPT ![w] = IF outcome \in {"error", "dataError"}
                                  THEN AfterError ELSE "sleeping"]
  /\ wurl' = [wurl EXCEPT ![w] = NoUrl]
  /\ lastFailed' = IF outcome = "data" THEN lastFailed ELSE w
  /\ UNCHANGED <<botProxies, workers, initFailed, isRunning, closes>>

\* PageWorker.start lines 817, 788-804: the sleep is over; the loop ends when
\* the worker was stopped, otherwise the worker pulls its next target
sleepEnds(w) ==
  /\ Monitoring
  /\ wpc[w] = "sleeping"
  /\ IF isRunning[w]
       THEN /\ getNextUrl(w)
            /\ wpc' = [wpc EXCEPT ![w] = "processing"]
            /\ wurl' = [wurl EXCEPT ![w] = lastUrl']
       ELSE /\ wpc' = [wpc EXCEPT ![w] = "exited"]
            /\ UNCHANGED <<wurl, pqvars>>
  /\ UNCHANGED <<botProxies, workers, initFailed, isRunning, closes, lastFailed>>

\* PageWorker.stop lines 821-827: the page, set by init() and never cleared,
\* is closed at every call
PageClose(n) == n + 1

\* StockBot.stop lines 1297-1302, run by the SIGINT handler of main (lines
\* 1353-1357): every worker is stopped in the same job
stop ==
  /\ Monitoring
  /\ \A w \in DOMAIN closes : closes[w] < MaxStops
  /\ isRunning' = [w \in DOMAIN isRunning |-> FALSE]
  /\ closes' = [w \in DOMAIN closes |-> PageClose(closes[w])]
  /\ UNCHANGED <<botProxies, workers, initFailed, wpc, wurl, lastFailed, pqvars>>

\* the tiers updateUrlPriority can derive for a target
TiersOf(url) == IF url \in hot THEN 0 .. 3 ELSE {0}

\* WebServer.broadcastLoading(url, region), web-server.js lines 186-223, and
\* broadcastUpdate(spuExtId, url, entry), lines 151-184: nothing is sent
\* without a connected client
broadcastLoading(url) == IF clients = 0 THEN loading ELSE loading \cup {url}
broadcastUpdate(url) == IF clients = 0 THEN loading ELSE loading \ {url}

\* PageWorker.start with its messages.  Line 799 sends the loading message
\* for the target just pulled; the only message that follows is the
\* broadcastUpdate at the end of processStockData (lines 1215-1217), reached
\* when the response is structured and the persistence did not throw.
\* broadcastLoadingComplete has no caller in PageWorker or processStockData.
startWorkerNotifying(w) ==
  /\ startWorker(w)
  /\ loading' = broadcastLoading(lastUrl')
  /\ UNCHANGED lastSet

sleepEndsNotifying(w) ==
  /\ sleepEnds(w)
  /\ loading' = IF isRunning[w] THEN broadcastLoading(lastUrl') ELSE loading
  /\ UNCHANGED lastSet

processingEndsNotifying(w, outcome, tier) ==
  /\ processingEnds(w, outcome, tier)
  /\ loading' = IF outcome = "data" THEN broadcastUpdate(wurl[w]) ELSE loading
  /\ UNCHANGED lastSet

\* ------------------------------------------------------------ observations
\* StockBot.products after setupProducts (lines 937-954)
InitProducts(productUrls) == products = productUrls

\* generateUrlsForProduct lines 927-931: the urls of product g, distinct from
\* those of every other product
GenerateUrls(g, count) == [j \in 1 .. count |-> 10 * g + j]

\* the elements of a sequence
Range(seq) == {seq[i] : i \in DOMAIN seq}

RECURSIVE Concatenate(_)
RECURSIVE Interleave(_)
\* interleaveUrls lines 960-967: each turn of the while loop shifts the head
\* off every queue that is not empty, in product order
Concatenate(urlQueues) ==
  IF urlQueues = <<>> THEN <<>>
  ELSE LET rest == [i \in 1 .. Len(urlQueues) - 1 |-> urlQueues[i + 1]]
       IN Head(urlQueues) \o Concatenate(rest)
Interleave(urlQueues) ==
  IF \A i \in DOMAIN urlQueues : urlQueues[i] = <<>> THEN <<>>
  ELSE LET live == SelectSeq([i \in DOMAIN urlQueues |-> i],
                             LAMBDA i : urlQueues[i] # <<>>)
           heads == [k \in DOMAIN live |-> Head(urlQueues[live[k]])]
           tails == [i \in DOMAIN urlQueues |->
                       IF urlQueues[i] = <<>> THEN <<>> ELSE Tail(urlQueues[i])]
       IN heads \o Interleave(tails)

\* interleaveUrls(), lines 956-971, with PriorityQueue.initialize, lines
\* 628-633
interleaveUrls ==
  LET interleavedUrls == Interleave(products) IN
  /\ products # <<>>
  /\ urls = <<>>
  /\ urls' = interleavedUrls
  /\ currentIndex' = 0
  /\ priorityMap' = <<>>
  /\ lastPriorityCheck' = [u \in Range(interleavedUrls) |-> 0]
  /\ lastPullAt' = [u \in Range(interleavedUrls) |-> 0]
  /\ UNCHANGED <<now, hot, lastKind, lastUrl, baseWindow>>
  /\ UNCHANGED <<extracted, stockData, clients, lastCall, products>>

\* the boxes of an API response: position, state and box_no
BoxStates == {0, 1, 2}
Boxes(positions, boxNos) == [position : positions, state : BoxStates, box_no : boxNos]
BoxLists(kinds, n) == UNION {[1 .. k -> kinds] : k \in 0 .. n}

\* no response yet, and a response for url
NoResponse == [url |-> NoUrl, structured |-> FALSE, box_list |-> <<>>]
Response(url, structured, boxList) ==
  [url |-> url, structured |-> structured, box_list |-> boxList]

\* urlMap.get(url) === undefined
NoEntry == [url |-> NoUrl, states |-> <<>>, stock |-> "none", lastChecked |-> 0]

NoCall == [done |-> FALSE, changed |-> FALSE, wrote |-> FALSE, broadcast |-> FALSE,
           sent |-> FALSE, before |-> NoEntry]

\* a StockBot with the stored entries `stored`, `n` connected web clients and
\* the response `response` arriving
InitObserver(response, stored, n) ==
  /\ extracted = response
  /\ stockData = stored
  /\ clients = n
  /\ lastCall = NoCall
  /\ loading = {}

\* box.position >= 1 && box.position <= 6
InPositionsAny(box) == TRUE
InPositions(box) == box.position >= 1 /\ box.position <= 6

\* String.prototype.trim on the box numbers of the model
Trim(str) == IF str = " " THEN "" ELSE str

\* box.box_no && box.box_no.trim() !== ''
HasBoxNo(box) == box.box_no # "" /\ Trim(box.box_no) # ""

\* updateUrlPriority lines 985-999: the two flags of the forEach
hasReserved(boxList) ==
  \E i \in DOMAIN boxList : InPositions(boxList[i]) /\ boxList[i].state = 2

hasInStock(boxList) ==
  \E i \in DOMAIN boxList :
    InPositions(boxList[i]) /\ boxList[i].state = 0 /\ HasBoxNo(boxList[i])

\* updateUrlPriority lines 1001-1009: the priority passed to setPriority
DeriveTier(boxList) ==
  IF hasReserved(boxList) /\ hasInStock(boxList) THEN 1
  ELSE IF hasReserved(boxList) THEN 2
  ELSE IF hasInStock(boxList) THEN 3
  ELSE 0

\* updateUrlPriority(url, extractedData), lines 979-1011
updateUrlPriority(url, response) ==
  IF ~response.structured
    THEN setPriority(url, 0)
    ELSE setPriority(url, DeriveTier(response.box_list))

\* Number.prototype.toString of a box state
StateToString(state) == <<"0", "1", "2">>[state + 1]

\* processStockData lines 1172-1183: states[position - 1] is the state of the
\* last box at that position, '' without one
StatesOf(boxList) ==
  [p \in 1 .. 6 |->
     IF \E i \in DOMAIN boxList : boxList[i].position = p
       THEN LET last == CHOOSE i \in DOMAIN boxList :
                          /\ boxList[i].position = p
                          /\ \A j \in DOMAIN boxList : boxList[j].position = p => j <= i
            IN StateToString(boxList[last].state)
       ELSE ""]

hasStock(boxList) ==
  \E i \in DOMAIN boxList : InPositions(boxList[i]) /\ HasBoxNo(boxList[i])

\* processStockData lines 1185-1195
StockEntry(url, boxList, checkedAt) ==
  [url |-> url,
   states |-> StatesOf(boxList),
   stock |-> IF hasStock(boxList) THEN "true" ELSE "false",
   lastChecked |-> checkedAt]

\* Array.prototype.join(' ') over the characters of the state strings
RECURSIVE Join(_)
Join(states) ==
  IF states = <<>> THEN <<>>
  ELSE (IF Head(states) = "" THEN <<>> ELSE <<Head(states)>>)
       \o (IF Len(states) = 1 THEN <<>> ELSE <<" ">> \o Join(Tail(states)))

\* hasDataChanged(existingEntry, newEntry), lines 1220-1241
hasDataChanged(existingEntry, newEntry) ==
  \/ existingEntry = NoEntry
  \/ Join(existingEntry.states) # Join(newEntry.states)
  \/ existingEntry.stock # newEntry.stock

\* processStockData(extractedData, url), lines 1162-1218, for the response
\* that arrived: the priority update, the change detection, the rewrite of
\* the TSV file and the broadcast, which reaches the clients if there are any
\* (web-server.js lines 151-154)
processStockData ==
  LET url == extracted.url
      stockEntry == StockEntry(url, extracted.box_list, now)
      existingEntry == stockData[url]
      dataChanged == hasDataChanged(existingEntry, stockEntry)
  IN
  /\ extracted # NoResponse
  /\ ~lastCall.done
  /\ IF ~extracted.structured
       THEN /\ lastCall' = [NoCall EXCEPT !.done = TRUE, !.before = existingEntry]
            /\ UNCHANGED <<stockData, pqvars>>
       ELSE /\ updateUrlPriority(url, extracted)
            /\ stockData' = IF dataChanged THEN [stockData EXCEPT ![url] = stockEntry]
                                             ELSE stockData
            /\ lastCall' = [done |-> TRUE, changed |-> dataChanged, wrote |-> dataChanged,
                            broadcast |-> TRUE, sent |-> clients > 0,
                            before |-> existingEntry]
  /\ UNCHANGED <<products, extracted, clients>>

\* ------------------------------------------------------------ specifications
\* createProxies(count, regions) with regions the first k of this.regions;
\* the queue is not initialized
Init ==
  /\ \E count \in 1 .. MaxCount, k \in 1 .. NumRegions :
       InitProxyManager(RoundRobin(count, [i \in 1 .. k |-> i]))
  /\ InitFleet(NoFile, <<>>, "done")
  /\ InitPriorityQueue(0, {})
  /\ InitStockBot(0)
  /\ InitProducts(<<>>)
  /\ InitObserver(NoResponse, <<>>, 0)

\* Phase 1 of createProxies: the units of a chunk reach createTaskDefinition
\* in any order
Next ==
  \/ \E u \in Units : createTaskDefinition(u) /\ UNCHANGED <<flvars, pqvars, wkvars, sbvars, rgvars, hsvars, ifvars>>
  \/ \E u \in Units : DelayElapsed(u) /\ UNCHANGED <<flvars, pqvars, wkvars, sbvars, rgvars, hsvars, ifvars>>
  \/ \E u \in Units, outcome \in {"ok", "transient", "permanent"} :
       RegisterReturns(u, outcome) /\ UNCHANGED <<flvars, pqvars, wkvars, sbvars, rgvars, hsvars, ifvars>>
  \/ \E u \in Units : BackoffElapsed(u) /\ UNCHANGED <<flvars, pqvars, wkvars, sbvars, rgvars, hsvars, ifvars>>
  \/ RunMicrotask /\ UNCHANGED <<flvars, pqvars, wkvars, sbvars, rgvars, hsvars, ifvars>>
  \/ \E u \in Units, ok \in BOOLEAN : 
       CreateService(u, ok)
         /\ UNCHANGED <<activeProxies, stateFile, writes, result, opvars,
                         pqvars, wkvars, sbvars, rgvars, hsvars, ifvars>>

Spec == Init /\ [][Next]_vars

\* createProxies(3, regions) over two regions: two units of the first
\* region and one of the second
InitLocks ==
  /\ InitProxyManager(<<1, 2, 1>>)
  /\ InitFleet(NoFile, <<>>, "done")
  /\ InitPriorityQueue(0, {})
  /\ InitStockBot(0)
  /\ InitProducts(<<>>)
  /\ InitObserver(NoResponse, <<>>, 0)

\* the createTaskDefinition calls of the units, in any order
NextLocks ==
  \/ \E u \in Units : createTaskDefinition(u) /\ UNCHANGED <<flvars, pqvars, wkvars, sbvars, rgvars, hsvars, ifvars>>
  \/ \E u \in Units : DelayElapsed(u) /\ UNCHANGED <<flvars, pqvars, wkvars, sbvars, rgvars, hsvars, ifvars>>
  \/ \E u \in Units, outcome \in {"ok", "transient", "permanent"} :
       RegisterReturns(u, outcome) /\ UNCHANGED <<flvars, pqvars, wkvars, sbvars, rgvars, hsvars, ifvars>>
  \/ \E u \in Units : BackoffElapsed(u) /\ UNCHANGED <<flvars, pqvars, wkvars, sbvars, rgvars, hsvars, ifvars>>
  \/ RunMicrotask /\ UNCHANGED <<flvars, pqvars, wkvars, sbvars, rgvars, hsvars, ifvars>>

\* every submission of the batch reaches createTaskDefinition, every timer
\* fires, every RegisterTaskDefinition request is answered and the microtask
\* queue is drained
LiveSpecLocks ==
  /\ InitLocks
  /\ [][NextLocks]_vars
  /\ \A u \in 1 .. 3 :
       /\ WF_vars(createTaskDefinition(u) /\ UNCHANGED <<flvars, pqvars, wkvars, sbvars, rgvars, hsvars, ifvars>>)
       /\ WF_vars(DelayElapsed(u) /\ UNCHANGED <<flvars, pqvars, wkvars, sbvars, rgvars, hsvars, ifvars>>)
       /\ WF_vars(\E outcome \in {"ok", "transient", "permanent"} :
                    RegisterReturns(u, outcome) /\ UNCHANGED <<flvars, pqvars, wkvars, sbvars, rgvars, hsvars, ifvars>>)
       /\ WF_vars(BackoffElapsed(u) /\ UNCHANGED <<flvars, pqvars, wkvars, sbvars, rgvars, hsvars, ifvars>>)
  /\ WF_vars(RunMicrotask /\ UNCHANGED <<flvars, pqvars, wkvars, sbvars, rgvars, hsvars, ifvars>>)

\* createProxies(count, regions) on a manager whose init() found no state file
InitProvision ==
  /\ \E count \in 1 .. MaxBatch, k \in 1 .. NumRegions :
       InitProxyManager(RoundRobin(count, [i \in 1 .. k |-> i]))
  /\ InitFleet(NoFile, <<>>, "done")
  /\ InitPriorityQueue(0, {})
  /\ InitStockBot(0)
  /\ InitProducts(<<>>)
  /\ InitObserver(NoResponse, <<>>, 0)

\* createProxies from its first line to its return: Phase 1, then the
\* readiness waits of Phase 2 with their saveState calls
NextProvision ==
  \/ \E u \in Units : createTaskDefinition(u) /\ UNCHANGED <<flvars, pqvars, wkvars, sbvars, rgvars, hsvars, ifvars>>
  \/ \E u \in Units : DelayElapsed(u) /\ UNCHANGED <<flvars, pqvars, wkvars, sbvars, rgvars, hsvars, ifvars>>
  \/ \E u \in Units, outcome \in {"ok", "transient", "permanent"} :
       RegisterReturns(u, outcome) /\ UNCHANGED <<flvars, pqvars, wkvars, sbvars, rgvars, hsvars, ifvars>>
  \/ \E u \in Units : BackoffElapsed(u) /\ UNCHANGED <<flvars, pqvars, wkvars, sbvars, rgvars, hsvars, ifvars>>
  \/ RunMicrotask /\ UNCHANGED <<flvars, pqvars, wkvars, sbvars, rgvars, hsvars, ifvars>>
  \/ \E u \in Units, ok \in BOOLEAN : 
       CreateService(u, ok)
         /\ UNCHANGED <<activeProxies, stateFile, writes, result, opvars,
                         pqvars, wkvars, sbvars, rgvars, hsvars, ifvars>>
  \/ \E u \in Units, running \in BOOLEAN :
       waitForServiceReadiness(u, running) /\ UNCHANGED <<pqvars, wkvars, sbvars, rgvars, hsvars, ifvars>>
  \/ \E w \in writes : writeFileReturns(w) /\ UNCHANGED <<pqvars, wkvars, sbvars, rgvars, hsvars, ifvars>>
  \/ createProxiesReturns /\ UNCHANGED <<pqvars, wkvars, sbvars, rgvars, hsvars, ifvars>>

SpecProvision == InitProvision /\ [][NextProvision]_vars

\* init() of a new manager beside a proxies.json of up to MaxFleet units, or
\* none, the services being in any state
InitStartup ==
  /\ InitProxyManager(<<>>)
  /\ \E k \in 0 .. MaxFleet :
       \E file \in {NoFile, FileOf(k)} :
         \E cloud \in [1 .. Len(file.activeProxies) -> ServiceStates] :
           InitFleet(file, cloud, "new")
  /\ InitPriorityQueue(0, {})
  /\ InitStockBot(0)
  /\ InitProducts(<<>>)
  /\ InitObserver(NoResponse, <<>>, 0)

NextStartup ==
  \/ loadState /\ UNCHANGED <<pqvars, wkvars, sbvars, rgvars, hsvars, ifvars>>
  \/ \E n \in DOMAIN validation, ok \in BOOLEAN :
       DescribeServicesReturns(n, ok) /\ UNCHANGED <<pqvars, wkvars, sbvars, rgvars, hsvars, ifvars>>
  \/ validateActiveProxiesReturns /\ UNCHANGED <<pqvars, wkvars, sbvars, rgvars, hsvars, ifvars>>
  \/ \E w \in writes : writeFileReturns(w) /\ UNCHANGED <<pqvars, wkvars, sbvars, rgvars, hsvars, ifvars>>

SpecStartup == InitStartup /\ [][NextStartup]_vars

\* a manager after init() with a fleet of running units: any of their
\* teardown functions and teardownAll are called
InitTeardown ==
  /\ InitProxyManager(<<>>)
  /\ \E k \in 1 .. MaxFleet :
       InitFleet(FileOf(k), [n \in 1 .. k |-> [status |-> "ACTIVE", runningCount |-> 1]],
                 "done")
  /\ InitPriorityQueue(0, {})
  /\ InitStockBot(0)
  /\ InitProducts(<<>>)
  /\ InitObserver(NoResponse, <<>>, 0)

NextTeardown ==
  \/ \E n \in DOMAIN tdState : teardown(n) /\ UNCHANGED <<pqvars, wkvars, sbvars, rgvars, hsvars, ifvars>>
  \/ \E n \in DOMAIN tdState, ok \in BOOLEAN :
       DeleteServiceReturns(n, ok) /\ UNCHANGED <<pqvars, wkvars, sbvars, rgvars, hsvars, ifvars>>
  \/ teardownAll /\ UNCHANGED <<pqvars, wkvars, sbvars, rgvars, hsvars, ifvars>>
  \/ teardownAllContinues /\ UNCHANGED <<pqvars, wkvars, sbvars, rgvars, hsvars, ifvars>>
  \/ \E w \in writes : writeFileReturns(w) /\ UNCHANGED <<pqvars, wkvars, sbvars, rgvars, hsvars, ifvars>>

SpecTeardown == InitTeardown /\ [][NextTeardown]_vars

\* a StockBot run (main lines 1361-1382) with up to MaxProxies proxy units and
\* up to MaxTargets targets, the first of them promotable
InitPool ==
  /\ InitProxyManager(<<>>)
  /\ InitFleet(NoFile, <<>>, "done")
  /\ \E n \in 1 .. MaxTargets : InitPriorityQueue(n, {1})
  /\ \E proxyCount \in 1 .. MaxProxies : InitStockBot(proxyCount)
  /\ InitProducts(<<>>)
  /\ InitObserver(NoResponse, <<>>, 0)

NextPool ==
  \/ \E ok \in BOOLEAN : initializeWorker(ok) /\ UNCHANGED <<tdvars, flvars, sbvars, rgvars, hsvars, ifvars>>
  \/ \E w \in DOMAIN wpc : startWorker(w) /\ UNCHANGED <<tdvars, flvars, sbvars, rgvars, hsvars, ifvars>>
  \/ \E w \in DOMAIN wpc, outcome \in {"data", "dataError", "nodata", "error"} :
       \E tier \in TiersOf(wurl[w]) :
         processingEnds(w, outcome, tier) /\ UNCHANGED <<tdvars, flvars, sbvars, rgvars, hsvars, ifvars>>
  \/ \E w \in DOMAIN wpc : sleepEnds(w) /\ UNCHANGED <<tdvars, flvars, sbvars, rgvars, hsvars, ifvars>>
  \/ stop /\ UNCHANGED <<tdvars, flvars, sbvars, rgvars, hsvars, ifvars>>

SpecPool == InitPool /\ [][NextPool]_vars

\* a StockBot run with two proxy units and five targets, the first promotable
InitLivePool ==
  /\ InitProxyManager(<<>>)
  /\ InitFleet(NoFile, <<>>, "done")
  /\ InitPriorityQueue(5, {1})
  /\ InitStockBot(2)
  /\ InitProducts(<<>>)
  /\ InitObserver(NoResponse, <<>>, 0)

\* startContinuousMonitoring starts every worker in one job, timers fire and
\* every processing ends (the executor has a 30 s timeout): each worker's
\* next step is eventually taken
LiveSpecPool ==
  /\ InitLivePool
  /\ [][NextPool]_vars
  /\ \A w \in 1 .. 2 :
       /\ WF_vars(w \in DOMAIN wpc /\ startWorker(w) /\ UNCHANGED <<tdvars, flvars, sbvars, rgvars, hsvars, ifvars>>)
       /\ WF_vars(w \in DOMAIN wpc /\ sleepEnds(w) /\ UNCHANGED <<tdvars, flvars, sbvars, rgvars, hsvars, ifvars>>)
       /\ WF_vars(w \in DOMAIN wpc /\
                  \E outcome \in {"data", "dataError", "nodata", "error"} :
                    \E tier \in TiersOf(wurl[w]) :
                      processingEnds(w, outcome, tier) /\ UNCHANGED <<tdvars, flvars, sbvars, rgvars, hsvars, ifvars>>)

\* a StockBot run with two proxy units, three targets and one web client
InitNotify ==
  /\ InitProxyManager(<<>>)
  /\ InitFleet(NoFile, <<>>, "done")
  /\ InitPriorityQueue(3, {1})
  /\ InitStockBot(2)
  /\ InitProducts(<<>>)
  /\ InitObserver(NoResponse, <<>>, 1)

\* the workers are initialized and started and run on, with their messages
NextNotify ==
  \/ \E ok \in BOOLEAN :
       initializeWorker(ok) /\ UNCHANGED <<tdvars, flvars, sbvars, rgvars, hsvars, ifvars>>
  \/ \E w \in DOMAIN wpc :
       startWorkerNotifying(w) /\ UNCHANGED <<tdvars, flvars, sbvars, rgvars, ifvars>>
  \/ \E w \in DOMAIN wpc, outcome \in {"data", "dataError", "nodata", "error"} :
       \E tier \in TiersOf(wurl[w]) :
         processingEndsNotifying(w, outcome, tier) /\ UNCHANGED <<tdvars, flvars, sbvars, rgvars, ifvars>>
  \/ \E w \in DOMAIN wpc :
       sleepEndsNotifying(w) /\ UNCHANGED <<tdvars, flvars, sbvars, rgvars, ifvars>>

\* each worker's next step is eventually taken, as in LiveSpecPool
LiveSpecNotify ==
  /\ InitNotify
  /\ [][NextNotify]_vars
  /\ \A w \in 1 .. 2 :
       /\ WF_vars(w \in DOMAIN wpc /\ startWorkerNotifying(w)
                    /\ UNCHANGED <<tdvars, flvars, sbvars, rgvars, ifvars>>)
       /\ WF_vars(w \in DOMAIN wpc /\ sleepEndsNotifying(w)
                    /\ UNCHANGED <<tdvars, flvars, sbvars, rgvars, ifvars>>)
       /\ WF_vars(w \in DOMAIN wpc /\
                  \E outcome \in {"data", "dataError", "nodata", "error"} :
                    \E tier \in TiersOf(wurl[w]) :
                      processingEndsNotifying(w, outcome, tier)
                        /\ UNCHANGED <<tdvars, flvars, sbvars, rgvars, ifvars>>)

\* a response with up to MaxBoxes boxes arrives for a target that has no
\* priority record or one of any tier, and no stored entry
InitTier ==
  /\ InitProxyManager(<<>>)
  /\ InitFleet(NoFile, <<>>, "done")
  /\ urls = <<1>>
  /\ hot = {1}
  /\ currentIndex = 0
  /\ \E priority \in 0 .. 3 :
       priorityMap = IF priority = 0 THEN <<>>
                     ELSE <<[url |-> 1, priority |-> priority, addedAt |-> StartTime - TickUnit]>>
  /\ lastPriorityCheck = <<0>>
  /\ now = StartTime
  /\ lastKind = "none"
  /\ lastUrl = NoUrl
  /\ baseWindow = <<>>
  /\ lastPullAt = <<0>>
  /\ lastSet = NoSet
  /\ InitStockBot(0)
  /\ InitProducts(<<>>)
  /\ \E structured \in BOOLEAN :
       \E boxList \in BoxLists(Boxes({0, 1, 6, 7}, {"", " ", "A1"}), MaxBoxes) :
         /\ structured \/ boxList = <<>>
         /\ InitObserver(Response(1, structured, boxList), <<NoEntry>>, 0)

NextObserve ==
  \/ processStockData /\ UNCHANGED <<tdvars, flvars, wkvars, rgvars, hsvars, ifvars>>

SpecTier == InitTier /\ [][NextObserve]_vars

\* the entries a TSV file can hold for a target
StoredEntries(url) ==
  {NoEntry} \cup {StockEntry(url, boxList, StartTime - TickUnit) :
                    boxList \in BoxLists(Boxes({1, 2}, {"", "A1"}), 1)}

\* a response with up to MaxBoxes boxes arrives for one of two targets, each
\* with any stored entry or none; a web client is connected or not
InitObserve ==
  /\ InitProxyManager(<<>>)
  /\ InitFleet(NoFile, <<>>, "done")
  /\ InitPriorityQueue(2, {1, 2})
  /\ InitStockBot(0)
  /\ InitProducts(<<>>)
  /\ \E url \in 1 .. 2, n \in 0 .. 1, structured \in BOOLEAN :
       \E boxList \in BoxLists(Boxes({1, 2}, {"", "A1"}), MaxBoxes) :
         \E existing \in StoredEntries(url) :
           \E other \in {NoEntry, StockEntry(3 - url, <<>>, StartTime - TickUnit)} :
             /\ structured \/ boxList = <<>>
             /\ InitObserver(Response(url, structured, boxList),
                             [u \in 1 .. 2 |-> IF u = url THEN existing ELSE other], n)

SpecObserve == InitObserve /\ [][NextObserve]_vars

\* setupProducts for up to MaxGroups products of up to MaxPerGroup urls each
InitSetup ==
  /\ InitProxyManager(<<>>)
  /\ InitFleet(NoFile, <<>>, "done")
  /\ InitPriorityQueue(0, {})
  /\ InitStockBot(0)
  /\ \E n \in 1 .. MaxGroups :
       \E counts \in [1 .. n -> 1 .. MaxPerGroup] :
         InitProducts([g \in 1 .. n |-> GenerateUrls(g, counts[g])])
  /\ InitObserver(NoResponse, <<>>, 0)

NextSetup ==
  \/ interleaveUrls /\ UNCHANGED <<tdvars, flvars, wkvars, rgvars, hsvars, ifvars>>

SpecSetup == InitSetup /\ [][NextSetup]_vars

\* a new manager: createProxies is called with no regions, an empty list or
\* a list, createProxy with no region or a region
InitRegions ==
  /\ InitProxyManager(<<>>)
  /\ InitFleet(NoFile, <<>>, "done")
  /\ InitPriorityQueue(0, {})
  /\ InitStockBot(0)
  /\ InitProducts(<<>>)
  /\ InitObserver(NoResponse, <<>>, 0)

NextRegions ==
  \/ \E count \in 1 .. MaxCount, argument \in {Null, Given(<<>>), Given(<<NumRegions>>)} :
       createProxies(count, argument)
         /\ UNCHANGED <<tdvars, flvars, pqvars, wkvars, sbvars, hsvars, ifvars>>
  \/ \E argument \in {Null, Given(<<NumRegions>>)} :
       createProxy(argument) /\ UNCHANGED <<tdvars, flvars, pqvars, wkvars, sbvars, hsvars, ifvars>>

SpecRegions == InitRegions /\ [][NextRegions]_vars

\* createProxies after Phase 1 submitted the services of one or two units
\* of one region (lines 716-747)
InitReadiness ==
  /\ \E count \in 1 .. 2 :
       /\ targetRegions = [u \in 1 .. count |-> 1]
       /\ pc = [u \in 1 .. count |-> "submitted"]
       /\ promise = [u \in 1 .. count |-> IF u = 1 THEN "fulfilled" ELSE "none"]
       /\ cstep = [u \in 1 .. count |-> IF u = 1 THEN "done" ELSE "none"]
       /\ attempt = [u \in 1 .. count |-> IF u = 1 THEN 1 ELSE 0]
       /\ InitFleet(NoFile, [u \in 1 .. count |-> [status |-> "ACTIVE", runningCount |-> 0]],
                    "done")
  /\ awaiting = [u \in Units |-> 0]
  /\ errKind = [u \in Units |-> "none"]
  /\ errBy = [u \in Units |-> 0]
  /\ taskDefinitionCache = [r \in Regions |-> IF r = 1 THEN 1 ELSE 0]
  /\ taskDefinitionMutex = [r \in Regions |-> 0]
  /\ globalTaskDefinitionLock = 0
  /\ delays = [u \in Units |-> <<>>]
  /\ thrown = [u \in Units |-> NoError]
  /\ lastError = [u \in Units |-> NoError]
  /\ reactions = [u \in Units |-> <<>>]
  /\ microtasks = <<>>
  /\ creations = [r \in Regions |-> IF r = 1 THEN 1 ELSE 0]
  /\ InitInfrastructure
  /\ currentRegionIndex = 0
  /\ regionCalls = <<>>
  /\ waited = [u \in Units |-> 0]
  /\ loop = LoopStart
  /\ InitPriorityQueue(0, {})
  /\ InitStockBot(0)
  /\ InitProducts(<<>>)
  /\ InitObserver(NoResponse, <<>>, 0)

\* Phase 2 of createProxies, the readiness waits followed poll by poll
NextReadiness ==
  \/ \E u \in Units, outcome \in {"address", "pending", "error"}, took \in {0, pollDelay} :
       waitForTaskRunning(u, outcome, took)
         /\ UNCHANGED <<currentRegionIndex, regionCalls, loop, pqvars, wkvars, sbvars, hsvars, ifvars>>
  \/ \E w \in writes : writeFileReturns(w) /\ UNCHANGED <<pqvars, wkvars, sbvars, rgvars, hsvars, ifvars>>
  \/ createProxiesReturns /\ UNCHANGED <<pqvars, wkvars, sbvars, rgvars, hsvars, ifvars>>

\* every request of a poll is answered or fails, and its timer fires
SpecReadiness ==
  /\ InitReadiness
  /\ [][NextReadiness]_vars
  /\ \A u \in 1 .. 2 :
       WF_vars(u \in Units /\
               \E outcome \in {"address", "pending", "error"}, took \in {0, pollDelay} :
                 waitForTaskRunning(u, outcome, took)
                   /\ UNCHANGED <<currentRegionIndex, regionCalls, loop, pqvars, wkvars, sbvars, hsvars, ifvars>>)
  /\ WF_vars(\E w \in writes : writeFileReturns(w) /\ UNCHANGED <<pqvars, wkvars, sbvars, rgvars, hsvars, ifvars>>)
  /\ WF_vars(createProxiesReturns /\ UNCHANGED <<pqvars, wkvars, sbvars, rgvars, hsvars, ifvars>>)

\* createProxies(count) for one region with count up to MaxSubmit
InitBatches ==
  /\ \E count \in 1 .. MaxSubmit : InitProxyManager(RoundRobin(count, <<1>>))
  /\ InitFleet(NoFile, <<>>, "done")
  /\ InitPriorityQueue(0, {})
  /\ InitStockBot(0)
  /\ InitProducts(<<>>)
  /\ InitObserver(NoResponse, <<>>, 0)

\* Phase 1 of createProxies batch by batch, each submission settling in one
\* step, and the readiness waits of Phase 2 followed to their timeout
NextBatches ==
  \/ \E u \in Units, ok \in BOOLEAN :
       createProxyServiceSettles(u, ok)
         /\ UNCHANGED <<activeProxies, stateFile, writes, result, opvars,
                         currentRegionIndex, regionCalls, waited,
                         pqvars, wkvars, sbvars, hsvars, ifvars>>
  \/ batchSettles
       /\ UNCHANGED <<currentRegionIndex, regionCalls, waited, pqvars, wkvars, sbvars, hsvars, ifvars>>
  \/ delayEnds
       /\ UNCHANGED <<currentRegionIndex, regionCalls, waited, pqvars, wkvars, sbvars, hsvars, ifvars>>
  \/ \E u \in Units :
       waitForServiceReadiness(u, FALSE) /\ UNCHANGED <<pqvars, wkvars, sbvars, rgvars, hsvars, ifvars>>

SpecBatches == InitBatches /\ [][NextBatches]_vars

\* one batch of createProxies: the submissions name and create their
\* services in any order, then the readiness waits add the units to the fleet
NextNames ==
  \/ \E u \in Units, t \in 1 .. MaxStamp, ok \in BOOLEAN :
       createService(u, t, ok)
         /\ UNCHANGED <<activeProxies, stateFile, writes, result, opvars,
                         rgvars, pqvars, wkvars, sbvars, hsvars>>
  \/ \E u \in Units, running \in BOOLEAN :
       waitForServiceReadiness(u, running)
         /\ UNCHANGED <<pqvars, wkvars, sbvars, rgvars, hsvars, ifvars>>
  \/ \E w \in writes :
       writeFileReturns(w) /\ UNCHANGED <<pqvars, wkvars, sbvars, rgvars, hsvars, ifvars>>
  \/ createProxiesReturns /\ UNCHANGED <<pqvars, wkvars, sbvars, rgvars, hsvars, ifvars>>

\* from the Init of Spec: createProxies(count, regions) with count up to
\* MaxCount, a single batch
SpecNames == Init /\ [][NextNames]_vars

\* the submissions of a createProxies call each ensure the cluster and the
\* security group of their region, in any interleaving
NextInfra ==
  \/ \E u \in Units :
       ensureCluster(u)
         /\ UNCHANGED <<tdvars, flvars, pqvars, wkvars, sbvars, rgvars, hsvars>>
  \/ \E u \in Units :
       DescribeClustersReturns(u)
         /\ UNCHANGED <<tdvars, flvars, pqvars, wkvars, sbvars, rgvars, hsvars>>
  \/ \E u \in Units :
       CreateClusterReturns(u)
         /\ UNCHANGED <<tdvars, flvars, pqvars, wkvars, sbvars, rgvars, hsvars>>
  \/ \E u \in Units :
       ensureSecurityGroup(u)
         /\ UNCHANGED <<tdvars, flvars, pqvars, wkvars, sbvars, rgvars, hsvars>>
  \/ \E u \in Units :
       DescribeSecurityGroupsReturns(u)
         /\ UNCHANGED <<tdvars, flvars, pqvars, wkvars, sbvars, rgvars, hsvars>>
  \/ \E u \in Units :
       CreateSecurityGroupReturns(u)
         /\ UNCHANGED <<tdvars, flvars, pqvars, wkvars, sbvars, rgvars, hsvars>>

\* from the Init of Spec: createProxies(count, regions) in a new account
SpecInfra == Init /\ [][NextInfra]_vars

\* a new manager beside a proxies.json of up to MaxRecords records
InitRoundTrip ==
  /\ InitProxyManager(<<>>)
  /\ \E n \in 0 .. MaxRecords :
       \E records \in FilesOf(n) :
         InitFleet([exists |-> TRUE, activeProxies |-> records], <<>>, "new")
  /\ InitPriorityQueue(0, {})
  /\ InitStockBot(0)
  /\ InitProducts(<<>>)
  /\ InitObserver(NoResponse, <<>>, 0)

\* loadState, then saveState, then the write completes
NextRoundTrip ==
  \/ loadStateCall /\ UNCHANGED <<pqvars, wkvars, sbvars, rgvars, hsvars, ifvars>>
  \/ saveStateCall /\ UNCHANGED <<pqvars, wkvars, sbvars, rgvars, hsvars, ifvars>>
  \/ \E w \in writes : writeFileReturns(w) /\ UNCHANGED <<pqvars, wkvars, sbvars, rgvars, hsvars, ifvars>>

SpecRoundTrip == InitRoundTrip /\ [][NextRoundTrip]_vars

\* rotation [A,B,C,D] with A and C promotable; no provisioning
InitPQ ==
  /\ InitProxyManager(<<>>)
  /\ InitFleet(NoFile, <<>>, "done")
  /\ InitPriorityQueue(4, {1, 3})
  /\ InitStockBot(0)
  /\ InitProducts(<<>>)
  /\ InitObserver(NoResponse, <<>>, 0)

\* a rotation longer than every cut limit, its first target promotable
InitCut ==
  /\ InitProxyManager(<<>>)
  /\ InitFleet(NoFile, <<>>, "done")
  /\ InitPriorityQueue(MaxRotation, {1})
  /\ InitStockBot(0)
  /\ InitProducts(<<>>)
  /\ InitObserver(NoResponse, <<>>, 0)

\* any sequence of getNextUrl and setPriority calls while the clock advances
NextPQ ==
  \/ \E w \in Workers : getNextUrl(w) /\ UNCHANGED <<tdvars, flvars, wkvars, sbvars, rgvars, hsvars, ifvars>>
  \/ \E url \in hot, priority \in 0 .. 3 :
       setPriority(url, priority) /\ UNCHANGED <<tdvars, flvars, wkvars, sbvars, rgvars, hsvars, ifvars>>
  \/ \E d \in {TickUnit, 2 * TickUnit} : Tick(d) /\ UNCHANGED <<tdvars, flvars, wkvars, sbvars, rgvars, hsvars, ifvars>>

SpecPQ == InitPQ /\ [][NextPQ]_vars

SpecCut == InitCut /\ [][NextPQ]_vars

\* a queue of MaxUrls targets, the first two promotable
InitQueue ==
  /\ InitProxyManager(<<>>)
  /\ InitFleet(NoFile, <<>>, "done")
  /\ InitPriorityQueue(MaxUrls, {1, 2})
  /\ InitStockBot(0)
  /\ InitProducts(<<>>)
  /\ InitObserver(NoResponse, <<>>, 0)

\* any sequence of initialize, setPriority and getNextUrl calls while the
\* clock advances without bound (in relative coordinates)
NextQueue ==
  \/ \E w \in Workers :
       getNextUrl(w) /\ lastSet' = NoSet
         /\ UNCHANGED <<tdvars, flvars, wkvars, sbvars, rgvars, loading, ifvars>>
  \/ \E url \in hot, priority \in 0 .. 3 :
       setPriorityCall(url, priority) /\ UNCHANGED <<tdvars, flvars, wkvars, sbvars, rgvars, loading, ifvars>>
  \/ \E n \in 2 .. MaxUrls :
       initialize(n) /\ lastSet' = NoSet
         /\ UNCHANGED <<tdvars, flvars, wkvars, sbvars, rgvars, loading, ifvars>>
  \/ \E d \in {TickUnit, 2 * TickUnit} :
       TickShift(d) /\ lastSet' = NoSet
         /\ UNCHANGED <<tdvars, flvars, wkvars, sbvars, rgvars, loading, ifvars>>

SpecQueue == InitQueue /\ [][NextQueue]_vars

\* the same calls with the clock in relative coordinates
NextLivePQ ==
  \/ \E w \in Workers : getNextUrl(w) /\ UNCHANGED <<tdvars, flvars, wkvars, sbvars, rgvars, hsvars, ifvars>>
  \/ \E url \in hot, priority \in 0 .. 3 :
       setPriority(url, priority) /\ UNCHANGED <<tdvars, flvars, wkvars, sbvars, rgvars, hsvars, ifvars>>
  \/ \E d \in {TickUnit, 2 * TickUnit} : TickShift(d) /\ UNCHANGED <<tdvars, flvars, wkvars, sbvars, rgvars, hsvars, ifvars>>

\* PageWorker.start pulls for ever and the clock never stops
LiveSpecPQ ==
  /\ InitPQ
  /\ [][NextLivePQ]_vars
  /\ WF_vars(\E w \in Workers : getNextUrl(w) /\ UNCHANGED <<tdvars, flvars, wkvars, sbvars, rgvars, hsvars, ifvars>>)
  /\ WF_vars(\E d \in {TickUnit, 2 * TickUnit} : TickShift(d) /\ UNCHANGED <<tdvars, flvars, wkvars, sbvars, rgvars, hsvars, ifvars>>)

\* ================================================================ claims
\* C1: for every region at most one creation succeeds, whatever the number
\* of concurrent createTaskDefinition calls for it and whatever else is in
\* flight or waiting; the other calls take the cached value.
C1_OneCreationPerRegion ==
  \A r \in Regions :
    Cardinality({u \in Units : targetRegions[u] = r /\ promise[u] = "fulfilled"}) <= 1

\* C2: at every instant at most one creation promise
\* (createTaskDefinitionWithMutex, retries and backoff waits included) is
\* pending across all regions.
C2_OneCreationInFlight ==
  Cardinality({u \in Units : promise[u] = "pending"}) <= 1

\* a creation is backing off between retries while a call of another region
\* waits on the global lock
C2_Witness ==
  \E u, v \in Units :
    /\ promise[u] = "pending" /\ cstep[u] = "backoff"
    /\ pc[v] = "awaitLock" /\ targetRegions[v] # targetRegions[u]

\* C3: in Phase 1 a unit's submission is rejected only by an error of its own
\* submission: its own CreateService step or the task-definition creation of
\* its own region; the failure of another region's unit never fails it.
C3_SiblingUnaffected ==
  \A u \in Units :
    pc[u] = "rejected" =>
      \/ errKind[u] = "service"
      \/ errKind[u] = "taskdef" /\ targetRegions[errBy[u]] = targetRegions[u]

\* C4: when the creation a call started fails after retries, the call throws
\* that error and leaves the region without cache entry, without mutex entry
\* and the global lock null.
C4_FailureLeavesRegionUncached ==
  [][\A u \in Units :
       (pc[u] = "awaitCreation" /\ pc'[u] = "rejected") =>
         /\ errKind'[u] = "taskdef" /\ errBy'[u] = u
         /\ taskDefinitionCache'[targetRegions[u]] = 0
         /\ taskDefinitionMutex'[targetRegions[u]] = 0
         /\ globalTaskDefinitionLock' = 0]_vars

\* the circular forward distance of a target from the base cursor
CircDist(url) == (IndexOf(url) - currentIndex + Len(urls)) % Len(urls)

\* the cut limit of a tier for baseLimit = 5
CutLimit(tier) == CASE tier = 1 -> 10 [] tier = 2 -> 5 [] tier = 3 -> 2

\* the records that pass the throttle check and the cut-distance check
Eligible ==
  {i \in 1 .. Len(priorityMap) :
     /\ \/ lastPriorityCheck[priorityMap[i].url] = 0
        \/ now - lastPriorityCheck[priorityMap[i].url] >= 30000
     /\ CircDist(priorityMap[i].url) <= CutLimit(priorityMap[i].priority)}

\* a getNextUrl call by some worker
Pull == \E w \in Workers : getNextUrl(w)

\* C5: every base pull returns the slot at the cursor and moves the cursor
\* one slot on (wrapping): the last urls.length base pulls, by whichever
\* workers, returned pairwise different slots in rotation order, and a full
\* window holds every slot exactly once.
C5_EachSlotOncePerPass ==
  /\ \A i, j \in 1 .. Len(baseWindow) : i # j => baseWindow[i] # baseWindow[j]
  /\ \A i \in 1 .. Len(baseWindow) - 1 :
       IndexOf(baseWindow[i + 1]) = (IndexOf(baseWindow[i]) + 1) % Len(urls)
  /\ baseWindow # <<>> =>
       currentIndex = (IndexOf(baseWindow[Len(baseWindow)]) + 1) % Len(urls)
  /\ Len(baseWindow) = Len(urls) =>
       {baseWindow[i] : i \in 1 .. Len(baseWindow)} = {urls[i] : i \in 1 .. Len(urls)}

\* a full pass of the rotation was handed out, with priority pulls of both
\* promotable targets in between, and the cursor has wrapped
C5_Witness ==
  /\ Len(baseWindow) = Len(urls) /\ currentIndex = 1
  /\ \A u \in hot : lastPullAt[u] # 0

\* C6: a priority pull returns, among the records that pass the throttle and
\* the cut-distance check, one of the lowest tier, and among those of that
\* tier one with the oldest promotion time.
C6_BestEligibleReturned ==
  [][Pull =>
       /\ lastKind' = "priority" <=> Eligible # {}
       /\ lastKind' = "priority" =>
            \E i \in Eligible :
              /\ priorityMap[i].url = lastUrl'
              /\ \A j \in Eligible :
                   \/ priorityMap[i].priority < priorityMap[j].priority
                   \/ /\ priorityMap[i].priority = priorityMap[j].priority
                      /\ priorityMap[i].addedAt <= priorityMap[j].addedAt]_vars

\* a tier-2 target was returned while the tier-1 record was throttled
C6_Witness ==
  /\ lastKind = "priority"
  /\ \E i, j \in 1 .. Len(priorityMap) :
       /\ priorityMap[i].url = lastUrl /\ priorityMap[i].priority = 2
       /\ lastPriorityCheck[lastUrl] = now
       /\ priorityMap[j].priority = 1
       /\ now - lastPriorityCheck[priorityMap[j].url] < 30000

\* C7: a priority pull never returns a target further ahead of the cursor
\* than its tier's cut limit (10, 5, 2), and a tier-1 record exactly 10 steps
\* ahead whose throttle window has elapsed is returned when it is the only
\* record.
C7_CutLimit ==
  [][Pull =>
       /\ lastKind' = "priority" =>
            \E i \in 1 .. Len(priorityMap) :
              /\ priorityMap[i].url = lastUrl'
              /\ CircDist(lastUrl') <= CutLimit(priorityMap[i].priority)
       /\ \A u \in hot :
            ( /\ Len(priorityMap) = 1
              /\ priorityMap[1].url = u /\ priorityMap[1].priority = 1
              /\ CircDist(u) = 10
              /\ now - lastPriorityCheck[u] >= 30000 )
            => lastKind' = "priority" /\ lastUrl' = u]_vars

\* a tier-1 target exactly 10 steps ahead was returned after its throttle
\* window had elapsed
C7_Witness ==
  /\ lastKind = "priority" /\ CircDist(lastUrl) = 10
  /\ lastPriorityCheck[lastUrl] = now /\ now >= StartTime + 30000
  /\ Len(priorityMap) = 1 /\ priorityMap[1].url = lastUrl /\ priorityMap[1].priority = 1

\* C8: a priority pull leaves the cursor and the records alone and sets only
\* the returned target's lastCheckedAt; a base pull moves the cursor one slot
\* on; no other step moves it.  With rotation [A,B,C,D] = [1,2,3,4], cursor
\* at A and C alone at tier 1 and unthrottled, the pull returns C and the
\* next non-priority pull returns A and leaves the cursor at B.
C8_PriorityPullKeepsCursor ==
  [][IF Pull
       THEN /\ lastKind' = "priority" =>
                 /\ currentIndex' = currentIndex /\ priorityMap' = priorityMap
                 /\ lastPriorityCheck' = [lastPriorityCheck EXCEPT ![lastUrl'] = now]
            /\ lastKind' = "base" =>
                 /\ currentIndex' = (currentIndex + 1) % Len(urls)
                 /\ priorityMap' = priorityMap
                 /\ lastPriorityCheck' = lastPriorityCheck
            /\ ( /\ Len(urls) = 4 /\ currentIndex = 0 /\ Len(priorityMap) = 1
                 /\ priorityMap[1].url = 3 /\ priorityMap[1].priority = 1
                 /\ now - lastPriorityCheck[3] >= 30000 )
               => lastKind' = "priority" /\ lastUrl' = 3 /\ currentIndex' = 0
            /\ ( /\ Len(urls) = 4 /\ currentIndex = 0
                 /\ lastKind = "priority" /\ lastUrl = 3 /\ lastKind' = "base" )
               => lastUrl' = 1 /\ currentIndex' = 1
       ELSE currentIndex' = currentIndex]_vars

\* rotation [1,2,3,4]: C = 3 was pulled by priority with the cursor at A, and
\* the one base pull made so far returned A = 1 and left the cursor at B
C8_Witness ==
  /\ Len(urls) = 4 /\ lastPullAt[3] # 0 /\ lastPullAt[1] = 0
  /\ lastKind = "base" /\ lastUrl = 1 /\ baseWindow = <<1>> /\ currentIndex = 1

\* C9: two priority pulls of the same target are at least
\* priorityCheckInterval (30 s) apart, whatever setPriority calls happen in
\* between.
C9_ThrottleBetweenPulls ==
  [][\A u \in hot :
       (Pull /\ lastKind' = "priority" /\ lastUrl' = u /\ lastPullAt[u] # 0)
         => now - lastPullAt[u] >= 30000]_vars

\* C10: the base rotation is never starved: base pulls keep happening.
C10_BaseNeverStarves == []<>(lastKind = "base")

\* C11: when createProxies(n, regions) returns, it returns r <= n units and
\* n - r is the number of submission failures plus the number of readiness
\* failures; the returned units are the ready ones, each once, each in
\* this.activeProxies, each with url socks5://<its publicIp>:<socksPort>.
C11_ReturnedPlusFailedIsRequested ==
  result.returned =>
    LET n == Len(targetRegions)
        r == Len(result.proxies)
        submissionFailed == {u \in Units : pc[u] = "rejected"}
        readinessFailed == {u \in Units : pc[u] = "readinessFailed"}
    IN  /\ r <= n
        /\ n - r = Cardinality(submissionFailed) + Cardinality(readinessFailed)
        /\ {result.proxies[i].serviceName : i \in 1 .. r} =
             {ServiceName(u) : u \in Units \ (submissionFailed \cup readinessFailed)}
        /\ \A i \in 1 .. r :
             /\ \E j \in 1 .. Len(activeProxies) : activeProxies[j] = result.proxies[i]
             /\ result.proxies[i].url = <<"socks5", result.proxies[i].publicIp, 1080>>

\* of two requested units one was returned and the other failed its
\* readiness wait
C11_Witness ==
  /\ result.returned /\ Len(targetRegions) = 2 /\ Len(result.proxies) = 1
  /\ \E u \in Units : pc[u] = "readinessFailed"

\* C12: at most one fs.writeFile of saveState is in flight at a time, and
\* once createProxies has returned and no write is in flight the file holds
\* the in-memory fleet.
C12_SerializedStateWrites ==
  /\ Cardinality(writes) <= 1
  /\ (result.returned /\ writes = {}) =>
       stateFile.activeProxies = SavedState(activeProxies)

C14_TeardownRemovesUnit ==
  \A n \in DOMAIN tdState :
    tdState[n] \in {"done", "failed"} =>
      /\ n \notin FleetNames
      /\ \A i \in 1 .. Len(stateFile.activeProxies) :
           stateFile.activeProxies[i].serviceName # n

\* C15: when teardownAll has returned, no unit whose service was deleted is
\* in the fleet or in the file, and every unit whose delete request failed,
\* its service still running, is still in both.
C15_TeardownAllConsistent ==
  taState = "done" =>
    \A n \in DOMAIN services :
      LET inFile == \E i \in 1 .. Len(stateFile.activeProxies) :
                      stateFile.activeProxies[i].serviceName = n
      IN  IF services[n].status = "ACTIVE"
            THEN n \in FleetNames /\ inFile
            ELSE n \notin FleetNames /\ ~inFile

\* C16: an operation is retried only after a transient error; one that keeps
\* failing with a transient error is invoked once and then retried
\* maxRetries = 4 times before its error propagates; once an attempt has
\* succeeded the operation is not invoked again.
C16_FourRetriesAfterFirstAttempt ==
  \A u \in Units :
    /\ cstep[u] = "backoff" => lastError[u].kind = "transient"
    /\ (promise[u] = "rejected" /\ thrown[u].kind = "transient") =>
         attempt[u] - 1 = 4
    /\ promise[u] = "fulfilled" => cstep[u] = "done"

\* C17: the k-th delay waited is min(1500 * 2^(k-1), 15000): the delays
\* double, none exceeds the cap, and none is waited after the attempt whose
\* error is propagated.
C17_BackoffSchedule ==
  \A u \in Units :
    /\ \A k \in 1 .. Len(delays[u]) :
         /\ delays[u][k] = (IF 1500 * 2 ^ (k - 1) <= 15000 THEN 1500 * 2 ^ (k - 1) ELSE 15000)
         /\ delays[u][k] <= 15000
         /\ k > 1 => delays[u][k] = 2 * delays[u][k - 1] \/ delays[u][k] = 15000
    /\ Len(delays[u]) = (IF cstep[u] = "backoff" THEN attempt[u] ELSE attempt[u] - 1)
         \/ attempt[u] = 0
    /\ promise[u] = "rejected" => Len(delays[u]) = thrown[u].attempt - 1

\* a creation failed after the delays 1500, 3000 and 6000 ms
C17_Witness ==
  \E u \in Units : promise[u] = "rejected" /\ delays[u] = <<1500, 3000, 6000>>

\* C18: a non-transient error is propagated by the attempt that raised it,
\* with no delay and no further invocation (the first attempt when it fails
\* at once); on exhaustion the error thrown is that of the last attempt.
C18_FinalErrorPropagated ==
  \A u \in Units :
    /\ lastError[u].kind = "permanent" =>
         /\ promise[u] = "rejected" /\ thrown[u] = lastError[u]
         /\ attempt[u] = lastError[u].attempt
         /\ Len(delays[u]) = attempt[u] - 1
    /\ promise[u] = "rejected" =>
         /\ thrown[u] = lastError[u] /\ thrown[u].attempt = attempt[u]
         /\ thrown[u].kind = "transient" => attempt[u] = maxRetries

\* one creation threw a non-transient error of its first attempt, another
\* threw the transient error of its last attempt
C18_Witness ==
  \E u, v \in Units :
    /\ promise[u] = "rejected" /\ thrown[u] = [kind |-> "permanent", attempt |-> 1]
    /\ delays[u] = <<>>
    /\ promise[v] = "rejected" /\ thrown[v] = [kind |-> "transient", attempt |-> maxRetries]

C20_WorkersKeepPulling ==
  \A w \in 1 .. 2 :
    /\ [](w \in DOMAIN wpc /\ wpc[w] = "exited" => ~isRunning[w])
    /\ (w \in DOMAIN wpc /\ wpc[w] = "processing")
         ~> (w \in DOMAIN wpc /\ wpc[w] = "sleeping")
    /\ (w \in DOMAIN wpc /\ wpc[w] = "sleeping")
         ~> (w \in DOMAIN wpc /\ (wpc[w] = "processing" \/ ~isRunning[w]))

\* worker 1 pulled again after a processing of its own that gave no data while
\* worker 2 is still processing
C20_Witness ==
  /\ Len(workers) = 2
  /\ lastFailed = 1
  /\ isRunning[1]
  /\ wpc = <<"processing", "processing">>

\* C21: the page of a worker is not closed while the worker is between
\* pulling a target and the end of the processing of that target.
C21_PageOpenWhileProcessing ==
  \A w \in DOMAIN wpc : wpc[w] = "processing" => closes[w] = 0

\* C22: over any number of stop() calls the page of each worker is closed
\* at most once, and a stop() of a stopped pool changes nothing.
C22_StopIdempotent ==
  /\ [](\A w \in DOMAIN closes : closes[w] <= 1)
  /\ [][(\A w \in DOMAIN closes : closes[w] >= 1 /\ ~isRunning[w]) /\ stop
         => UNCHANGED wkvars]_vars

\* C23: after updateUrlPriority handled a structured result, the target's
\* priority record is tier 1 when some box at positions 1..6 is reserved
\* (state 2) and some box there is in stock (state 0 with a box number),
\* tier 2 when only the first holds, tier 3 when only the second holds, and
\* absent when neither holds.
C23_TierFromConditions ==
  lastCall.done /\ extracted.structured =>
    LET boxList == extracted.box_list
        A == \E i \in DOMAIN boxList :
               boxList[i].position \in 1 .. 6 /\ boxList[i].state = 2
        B == \E i \in DOMAIN boxList :
               /\ boxList[i].position \in 1 .. 6
               /\ boxList[i].state = 0
               /\ boxList[i].box_no \notin {"", " "}
        tier == IF A /\ B THEN 1 ELSE IF A THEN 2 ELSE IF B THEN 3 ELSE 0
    IN IF tier = 0
         THEN ~HasPriority(extracted.url)
         ELSE /\ HasPriority(extracted.url)
              /\ priorityMap[EntryOf(extracted.url)].priority = tier

\* a reserved box and a box in stock gave tier 1
C23_Witness ==
  /\ lastCall.done
  /\ Len(extracted.box_list) = 2
  /\ extracted.box_list[1].state = 2
  /\ extracted.box_list[2].state = 0
  /\ HasPriority(1)
  /\ priorityMap[EntryOf(1)].priority = 1

\* C24: a structured observation is written to the file or sent to the web
\* clients only if it differs from the target's stored observation in its
\* state slots or its stock flag, and an identical observation leaves the
\* stored observation as it was.
C24_PersistAndNotifyOnChange ==
  lastCall.done /\ extracted.structured =>
    LET new == StockEntry(extracted.url, extracted.box_list, now)
        old == lastCall.before
        differs == old = NoEntry \/ old.states # new.states \/ old.stock # new.stock
    IN /\ (lastCall.wrote \/ lastCall.sent) => differs
       /\ ~differs => stockData[extracted.url] = old

\* C25: the rotation built by interleaveUrls holds every target of every
\* product exactly once and nothing else; the j-th target of product g comes
\* after the first j-1 targets of every product and the j-th targets of the
\* products before g, which keeps each product's order and takes one target
\* per unexhausted product per round; and in every prefix two products that
\* both have targets left differ by at most one slot.
C25_RoundRobinRotation ==
  urls # <<>> =>
    LET Taken(g, n) == Cardinality({i \in 1 .. n : urls[i] \in Range(products[g])})
    IN /\ \A g \in DOMAIN products : \A j \in DOMAIN products[g] :
            Cardinality({i \in DOMAIN urls : urls[i] = products[g][j]}) = 1
       /\ \A i \in DOMAIN urls : \E g \in DOMAIN products : urls[i] \in Range(products[g])
       /\ \A g \in DOMAIN products : \A j \in DOMAIN products[g] :
            urls[Cardinality({<<h, l>> \in (DOMAIN products) \X (1 .. MaxPerGroup + 1) :
                                /\ l <= Len(products[h])
                                /\ (l < j \/ (l = j /\ h < g))}) + 1] = products[g][j]
       /\ \A n \in 0 .. Len(urls) : \A g, h \in DOMAIN products :
            Taken(g, n) < Len(products[g]) /\ Taken(h, n) < Len(products[h])
              => Taken(g, n) - Taken(h, n) \in {-1, 0, 1}

\* P1 = [p1a, p1b] and P2 = [p2a] gave [p1a, p2a, p1b]
C25_Witness ==
  /\ products = <<GenerateUrls(1, 2), GenerateUrls(2, 1)>>
  /\ urls = <<11, 21, 12>>

\* C26: getStatus reports a position within 1..total, and once a full pass
\* of the base rotation was made (as many base pulls as there are targets)
\* the reported cycle is 2 or more.
C26_StatusPositionAndCycle ==
  urls # <<>> =>
    /\ getStatus.currentPosition \in 1 .. getStatus.totalUrls
    /\ Len(baseWindow) = Len(urls) => getStatus.cycle >= 2

\* C27: a createProxies call with an empty regions list gives every unit a
\* region of the default list, never an undefined one.
C27_EmptyRegionListUsesDefault ==
  \A c \in DOMAIN regionCalls :
    regionCalls[c].op = "createProxies" /\ regionCalls[c].argument = Given(<<>>) =>
      \A i \in DOMAIN regionCalls[c].assigned :
        /\ regionCalls[c].assigned[i] # Undefined
        /\ regionCalls[c].assigned[i] \in Range(regions)

\* C28: the units that createProxies and createProxy assign without an
\* explicit region take, in order and across the calls, the regions of the
\* default list in rotation, and the cursor stands behind the last of them.
C28_SharedRegionCursor ==
  LET RECURSIVE Rotated(_)
      Rotated(calls) ==
        IF calls = <<>> THEN <<>>
        ELSE (IF Head(calls).argument = Null THEN Head(calls).assigned ELSE <<>>)
             \o Rotated(Tail(calls))
      units == Rotated(regionCalls)
  IN /\ \A k \in DOMAIN units : units[k] = regions[((k - 1) % Len(regions)) + 1]
     /\ currentRegionIndex = Len(units) % Len(regions)

\* C29: every readiness wait ends; it ends with an address only when a
\* running task with an address was seen, and the unit is then in the fleet
\* under that address; it fails only once the deadline has passed, the unit
\* is then not in the fleet, and the units that became ready are returned.
C29_ReadinessWaitTerminates ==
  \A u \in 1 .. 2 :
    /\ (u \in Units /\ pc[u] = "submitted")
         ~> (u \in Units /\ pc[u] \in {"saving", "ready", "readinessFailed"})
    /\ [](u \in Units /\ pc[u] = "readinessFailed" =>
            /\ waited[u] >= maxWaitTime
            /\ \A i \in DOMAIN activeProxies : activeProxies[i].serviceName # ServiceName(u))
    /\ [](u \in Units /\ pc[u] \in {"saving", "ready"} =>
            /\ services[ServiceName(u)].runningCount >= 1
            /\ \E i \in DOMAIN activeProxies :
                 /\ activeProxies[i].serviceName = ServiceName(u)
                 /\ activeProxies[i].publicIp = Address(ServiceName(u)))
    /\ [](u \in Units /\ result.returned /\ pc[u] = "ready" =>
            \E i \in DOMAIN result.proxies : result.proxies[i].serviceName = ServiceName(u))

\* the wait of unit 1 timed out, unit 2 became ready and is the one returned
C29_Witness ==
  /\ Len(targetRegions) = 2
  /\ pc = <<"readinessFailed", "ready">>
  /\ waited[1] >= maxWaitTime
  /\ result.returned
  /\ Len(result.proxies) = 1
  /\ result.proxies[1].serviceName = ServiceName(2)

\* C30: once createProxies has returned, every service it created is a unit
\* of the fleet or is no longer active in the cloud.
C30_FailedServicesRemoved ==
  result.returned =>
    \A u \in Units :
      ServiceName(u) \in DOMAIN services =>
        \/ \E i \in DOMAIN activeProxies : activeProxies[i].serviceName = ServiceName(u)
        \/ services[ServiceName(u)].status # "ACTIVE"

\* C31: setPriority(target, tier) with a non-zero tier equal to the target's
\* current tier changes only the addedAt of the target's record: its tier,
\* its place among the records, every other record, every lastCheckedAt, the
\* rotation and the cursor stay as they were, and a target that was throttled
\* before the call is not returned by a priority pull right after it.
C31_SameTierRefreshesOnly ==
  [][\A url \in hot, tier \in 1 .. 3 :
       ( /\ setPriorityCall(url, tier)
         /\ HasPriority(url) /\ priorityMap[EntryOf(url)].priority = tier )
       => /\ priorityMap' = [priorityMap EXCEPT ![EntryOf(url)].addedAt = now]
          /\ lastPriorityCheck' = lastPriorityCheck
          /\ urls' = urls /\ currentIndex' = currentIndex
          /\ now - lastPriorityCheck[url] < priorityCheckInterval
               => getNextPriorityUrl' # url]_vars

\* a throttled target was promoted again at its own tier, later than its
\* promotion, beside the record of another target
C31_Witness ==
  /\ lastSet.priority # 0 /\ lastSet.was = lastSet.priority
  /\ HasPriority(lastSet.url) /\ Len(priorityMap) = 2
  /\ priorityMap[EntryOf(lastSet.url)].addedAt = now
  /\ lastPriorityCheck[lastSet.url] # 0
  /\ lastPriorityCheck[lastSet.url] < now
  /\ now - lastPriorityCheck[lastSet.url] < priorityCheckInterval

\* C32: a target without a record is never returned by getNextPriorityUrl and
\* the tier counts of getStatus() count the records only; setPriority(target,
\* 0) leaves the target without a record and without a lastCheckedAt, takes
\* one off the count of the tier it had, keeps every other record, the
\* rotation and the cursor, and changes nothing when the target had no record.
C32_ClearRemovesRecord ==
  /\ [](\A url \in hot : ~HasPriority(url) =>
          /\ getNextPriorityUrl # url
          /\ lastPriorityCheck[url] = 0)
  /\ [](getStatus.priorityStats[1] + getStatus.priorityStats[2]
          + getStatus.priorityStats[3] = Len(priorityMap))
  /\ [][\A url \in hot :
          setPriorityCall(url, 0) =>
            /\ ~HasPriority(url)'
            /\ urls' = urls /\ currentIndex' = currentIndex
            /\ IndexOf(url)' = IndexOf(url)
            /\ \A i \in 1 .. Len(priorityMap) :
                 priorityMap[i].url # url =>
                   \E j \in 1 .. Len(priorityMap') : priorityMap'[j] = priorityMap[i]
            /\ HasPriority(url) =>
                 getStatus.priorityStats' =
                   [getStatus.priorityStats EXCEPT
                      ![priorityMap[EntryOf(url)].priority] = @ - 1]
            /\ ~HasPriority(url) => UNCHANGED pqvars]_vars

\* a target that had been returned by a priority pull was cleared; it is in
\* the rotation, the cursor is off the first slot and the other promotable
\* target still has its record
C32_Witness ==
  /\ lastSet.priority = 0 /\ lastSet.was # 0
  /\ ~HasPriority(lastSet.url) /\ lastPullAt[lastSet.url] # 0
  /\ IndexOf(lastSet.url) # -1 /\ currentIndex # 0
  /\ Len(priorityMap) = 1

\* C39: in every state of a queue with a non-empty rotation the cursor is a
\* slot of the rotation, every record has tier 1, 2 or 3, no target has two
\* records, and every target with a lastCheckedAt has a record.
C39_QueueInvariant ==
  Len(urls) # 0 =>
    /\ 0 <= currentIndex /\ currentIndex < Len(urls)
    /\ \A i \in 1 .. Len(priorityMap) : priorityMap[i].priority \in 1 .. 3
    /\ \A i, j \in 1 .. Len(priorityMap) :
         priorityMap[i].url = priorityMap[j].url => i = j
    /\ \A url \in DOMAIN lastPriorityCheck :
         lastPriorityCheck[url] # 0 => HasPriority(url)

\* the cursor has wrapped after a full pass, one promotable target has a
\* record and a lastCheckedAt, and the other was cleared after a priority pull
C39_Witness ==
  /\ Len(urls) # 0 /\ Len(baseWindow) = Len(urls) /\ currentIndex = 0
  /\ \E url \in hot : HasPriority(url) /\ lastPriorityCheck[url] # 0
  /\ \E url \in hot : ~HasPriority(url) /\ lastPullAt[url] # 0

\* C33: when every record of the loaded file has the five fields url, region,
\* serviceName, publicIp and createdAt, the records saveState writes right
\* after loadState are the records of the file, field by field and in the
\* same order (fields other than the five are not written).
C33_LoadSaveRoundTrip ==
  LET file == stateFile.activeProxies IN
    \A w \in writes :
      (initState = "saving" /\ \A i \in 1 .. Len(file) : Fields \subseteq DOMAIN file[i])
        => /\ Len(w.data) = Len(file)
           /\ \A i \in 1 .. Len(file) :
                /\ DOMAIN w.data[i] = Fields
                /\ \A field \in Fields : w.data[i][field] = file[i][field]

\* a file of two records of different regions, both with the five fields and
\* one of them with a field more, was loaded and saved, and the write has
\* completed: the file holds the five fields of each unit as loaded
C33_Witness ==
  /\ initState = "done" /\ writes = {}
  /\ Len(activeProxies) = 2 /\ Len(stateFile.activeProxies) = 2
  /\ \A i \in 1 .. 2 : DOMAIN stateFile.activeProxies[i] = Fields
  /\ \A i \in 1 .. 2 : Fields \subseteq DOMAIN activeProxies[i]
  /\ \E i \in 1 .. 2 : "note" \in DOMAIN activeProxies[i]
  /\ activeProxies[1].region # activeProxies[2].region
  /\ \A i \in 1 .. 2 : activeProxies[i].createdAt = stateFile.activeProxies[i].createdAt

\* the batch of a unit, counted from 0, and the units whose submission has
\* started and not settled
BatchOf(u) == (u - 1) \div 5
InFlight ==
  {u \in Units : pc[u] \notin {"unsent", "submitted", "rejected", "saving", "ready",
                               "readinessFailed"}}

\* C34: at most 5 submissions are in flight; a submission has started only
\* when every submission of the earlier batches has settled and one delay of
\* 1 s per earlier batch has elapsed; no delay is awaited or has elapsed after
\* the last batch; and a readiness wait has started or ended only when every
\* submission has settled.
C34_BatchesOfFive ==
  /\ Cardinality(InFlight) <= 5
  /\ \A u \in Units :
       pc[u] # "unsent" =>
         /\ \A v \in Units :
              BatchOf(v) < BatchOf(u) => v \notin InFlight /\ pc[v] # "unsent"
         /\ loop.delayed >= 1000 * BatchOf(u)
  /\ \A u \in Units : loop.delayed <= 1000 * BatchOf(Len(targetRegions))
  /\ loop.at = "delay" => \E u \in Units : pc[u] = "unsent"
  /\ \A u \in Units :
       pc[u] \in {"saving", "ready", "readinessFailed"} =>
         \A v \in Units : v \notin InFlight /\ pc[v] # "unsent"

\* six units in two batches: the second batch was submitted after one delay,
\* a submission of the first batch was rejected, and after the last
\* submission had settled a readiness wait has ended
C34_Witness ==
  /\ Len(targetRegions) = 6 /\ loop = [i |-> 5, at |-> "awaitBatch", delayed |-> 1000]
  /\ pc[1] = "rejected" /\ pc[2] = "readinessFailed" /\ pc[6] = "submitted"

\* C35: every loading message sent for a target is eventually followed by an
\* update or a loading_complete message for that target.
C35_LoadingEventuallyCleared ==
  \A url \in 1 .. 3 : (url \in loading) ~> (url \notin loading)

\* C36: for every region at most one CreateCluster request and at most one
\* CreateSecurityGroup request is in flight at any time.
C36_OneInfrastructureCreationInFlight ==
  \A r \in Regions :
    /\ Cardinality({u \in Units : targetRegions[u] = r /\ clStep[u] = "creating"}) <= 1
    /\ Cardinality({u \in Units : targetRegions[u] = r /\ sgStep[u] = "creating"}) <= 1

\* C37: no target is being processed by two workers at the same time.
C37_NoTargetOnTwoWorkers ==
  \A w1, w2 \in DOMAIN wpc :
    (w1 # w2 /\ wpc[w1] = "processing" /\ wpc[w2] = "processing")
      => wurl[w1] # wurl[w2]

\* C38: no two units of the active fleet share a serviceName.
C38_ServiceNamesUnique ==
  \A i, j \in DOMAIN activeProxies :
    i # j => serviceNames[activeProxies[i].serviceName]
               # serviceNames[activeProxies[j].serviceName]

\* a createTaskDefinition call of unit u is under way / has returned or thrown
Calling(u) == pc[u] \in {"awaitMutex", "awaitLock", "awaitCreation"}
Returned(u) == pc[u] \in {"haveTaskDef", "rejected"}

\* no creation promise is pending and no continuation is queued
NoCreationInFlight ==
  /\ \A u \in Units : promise[u] # "pending"
  /\ microtasks = <<>>

\* C40: every createTaskDefinition call that is under way eventually returns
\* or throws, and whenever no creation is in flight the global lock and the
\* mutex entry of every region are cleared.
C40_LockProtocolLive ==
  /\ \A u \in 1 .. 3 : Calling(u) ~> Returned(u)
  /\ [](NoCreationInFlight =>
          /\ globalTaskDefinitionLock = 0
          /\ \A r \in Regions : taskDefinitionMutex[r] = 0)

\* every call has returned or thrown, one of them after waiting on the global
\* lock behind two creations, and lock and mutex entries are cleared
C40_Witness ==
  /\ \A u \in Units : Returned(u)
  /\ NoCreationInFlight
  /\ creations[1] + creations[2] >= 2
  /\ \E u \in Units : promise[u] = "none" /\ pc[u] = "haveTaskDef"
  /\ \E u \in Units : promise[u] = "rejected"
  /\ globalTaskDefinitionLock = 0
  /\ \A r \in Regions : taskDefinitionMutex[r] = 0

====
